---- MODULE Spec2Model ----
(***************************************************************************)
(* Altis commerce core: the order aggregate and its change handler, the    *)
(* in-memory order manager, fulfillment tokens, seat holds, the HTTP       *)
(* order/offer handlers over the durable store and the availability cache, *)
(* and the circuit breaker.  Each component is a state machine over its    *)
(* own variables with its own specification; every await of a handler is   *)
(* one step.                                                               *)
(***************************************************************************)
EXTENDS Integers, Sequences, FiniteSets, TLC

VARIABLES
    order,        \* altis-order Order aggregate: [items, total_nuc, status]
    chg_result,   \* result of the last ChangeHandler / disruption call
    mgr_orders,   \* OrderManager.orders : id -> order status, or NONE
    mgr_result,   \* result of the last OrderManager call
    cb_state,     \* CircuitBreaker.state
    failure_count,\* CircuitBreaker.failure_count
    last_failure, \* CircuitBreaker.last_failure: <<>> (None) or <<instant>> (Some)
    now,          \* the clock (Instant::now / Utc::now)
    cb_req,       \* per request task: its place in circuit_breaker_middleware
    cb_started,   \* requests routed through the breaker so far
    cb_streak,    \* failures recorded since the last recorded success
    ful_svc,      \* FulfillmentService.fulfillments, in the map's iteration order
    ful_rows,     \* the fulfillment table, by barcode
    ful_result,   \* the last fulfillment call and what it returned
    trip_hash,    \* Redis hashes trip:{id}: flights and owner
    seat_lock,    \* Redis keys seat:{flight}:{seat}: the holder trip
    hold_req,     \* per hold-seat request: its place in create_seat_hold
    kafka_log,    \* records published to the topic holds.created
    sse_log,      \* events sent on the seat-map broadcast channel
    avail,        \* Redis keys flight:{id}:availability: <<>> absent, <<n>> present
    db_orders,    \* tables orders and order_items
    db_changes,   \* table order_changes (the audit log)
    telemetry,    \* events handed to the telemetry sink
    api_task,     \* per request task: the handler it runs and its place in it
    api_calls,    \* requests started so far
    item_revenue, \* order_items.revenue_status, by the item's barcode
    order_ledger, \* table order_ledger, in insertion order
    rev_task,     \* per consume request: its place in consume_fulfillment
    rev_calls,    \* consume requests started so far
    db_bookings,  \* tables bookings, passengers and passenger_seats, by booking id
    book_req,     \* per commit request: its place in commit_booking
    booking_topic,\* records published to the topic booking.confirmed
    deliveries,   \* times each booking's record has been handed to the worker
    worker,       \* the availability worker: the booking it is processing
    exp_offers,   \* ExpiryManager.offers: id -> the stored offer's status and expiry
    exp_result,   \* the last ExpiryManager call and what it returned
    released      \* history: seats added back to each flight's counter, per order

NONE == "NONE"

orderVars == <<order, chg_result>>
mgrVars   == <<mgr_orders, mgr_result>>
cbVars    == <<cb_state, failure_count, last_failure, cb_req, cb_started, cb_streak>>
fulVars   == <<ful_svc, ful_rows, ful_result>>
seatVars  == <<trip_hash, seat_lock, hold_req, kafka_log, sse_log>>
apiVars   == <<avail, db_orders, db_changes, telemetry, api_task, api_calls, released>>
revVars   == <<item_revenue, order_ledger, rev_task, rev_calls>>
bookVars  == <<db_bookings, book_req, booking_topic, deliveries, worker>>
expVars   == <<exp_offers, exp_result>>
vars      == <<order, chg_result, mgr_orders, mgr_result,
               cb_state, failure_count, last_failure, now, cb_req, cb_started, cb_streak,
               ful_svc, ful_rows, ful_result,
               trip_hash, seat_lock, hold_req, kafka_log, sse_log,
               avail, db_orders, db_changes, telemetry, api_task, api_calls,
               item_revenue, order_ledger, rev_task, rev_calls,
               db_bookings, book_req, booking_topic, deliveries, worker,
               exp_offers, exp_result, released>>

\* what the operations of one component leave alone
exceptOrder == <<mgrVars, cbVars, fulVars, seatVars, apiVars, revVars, bookVars, expVars, now>>
exceptMgr   == <<orderVars, cbVars, fulVars, seatVars, apiVars, revVars, bookVars, expVars, now>>
exceptCB    == <<orderVars, mgrVars, fulVars, seatVars, apiVars, revVars, bookVars, expVars, now>>
exceptFul   == <<orderVars, mgrVars, cbVars, seatVars, apiVars, revVars, bookVars, expVars, now>>
exceptSeat  == <<orderVars, mgrVars, cbVars, fulVars, apiVars, revVars, bookVars, expVars, now>>
exceptRelease == <<orderVars, mgrVars, cbVars, seatVars, revVars, bookVars, expVars,
                   ful_svc, ful_result, now>>
exceptApi   == <<exceptRelease, released>>
exceptRev   == <<orderVars, mgrVars, cbVars, seatVars, bookVars, expVars, ful_svc, ful_result, now,
                 avail, db_changes, api_task, api_calls, released>>
exceptClock == <<orderVars, mgrVars, cbVars, fulVars, seatVars, apiVars, revVars, bookVars, expVars>>
exceptBook  == <<orderVars, mgrVars, cbVars, fulVars, revVars, expVars, now,
                 kafka_log, sse_log, hold_req,
                 db_orders, db_changes, telemetry, api_task, api_calls, released>>
exceptExp   == <<orderVars, mgrVars, cbVars, fulVars, seatVars, apiVars, revVars, bookVars, now>>

(***************************************************************************)
(* Bounds of the model.                                                    *)
(***************************************************************************)
MaxItems  == 2      \* items an Order aggregate may hold
MaxOrders == 2      \* ids known to the OrderManager
MaxTime   == 2      \* the clock stops here
NumClients == 2     \* request tasks running through the breaker at once
MaxRequests == 5    \* requests routed through the breaker in one run
NumApiTasks == 2    \* request tasks running API handlers at once
MaxApiOrders == 2   \* orders created in one run
MaxApiCalls == 3    \* API requests in one run
Capacity == 1       \* aircraft capacity of every flight
HoldTicks == 1      \* hold duration of an order, in clock ticks
OfferTtl == 1       \* offers expire after this clock value
NumHoldReqs == 2    \* hold-seat requests in one run
MaxFulfillments == 2 \* fulfillments held by one FulfillmentService
MaxFulCalls == 4    \* fulfillment calls in one run
NumRevTasks == 2    \* request tasks running consume_fulfillment at once
MaxRevCalls == 3    \* consume requests in one run
NumBookReqs == 2    \* commit-booking requests in one run
MaxDeliveries == 2  \* times the broker may hand one record to the worker
BookHolds == 1      \* hold-seat requests in a run of commit requests
MaxExpOffers == 2   \* offer ids an ExpiryManager is given
\* CircuitBreaker::new(name, threshold, timeout): the breaker's parameters
FailureThreshold == 2
ResetTimeout == 1

RECURSIVE SumSeq(_)
SumSeq(s) == IF s = <<>> THEN 0 ELSE Head(s) + SumSeq(Tail(s))

(***************************************************************************)
(* altis-order/src/models.rs                                               *)
(***************************************************************************)
OrderStatus == {"Proposed", "Locked", "Paid", "Fulfilled", "Archived", "Expired", "Cancelled"}

\* Inputs of OrderItem::new: the price, quantity, product type and the
\* metadata's flight_id.
Prices      == {100, 250}
Quantities  == {1, 2}
ItemKinds   == { [product_type |-> "FLIGHT", flight_id |-> "F1"],
                 [product_type |-> "MEAL",   flight_id |-> NONE] }
FlightIds   == {"F1", "F2"}

\* OrderItem::new: a fresh id, status Active.
OrderItemNew(id, kind, price, qty) ==
    [id |-> id, product_type |-> kind.product_type, flight_id |-> kind.flight_id,
     price_nuc |-> price, quantity |-> qty, status |-> "ACTIVE"]

\* Order::new
OrderNew == [items |-> <<>>, total_nuc |-> 0, status |-> "Proposed"]

\* Order::calculate_active_total: the sum of price_nuc over ACTIVE items.
calculate_active_total(o) ==
    SumSeq([i \in 1..Len(o.items) |->
              IF o.items[i].status = "ACTIVE" THEN o.items[i].price_nuc ELSE 0])

\* Order::add_item: total_nuc += item.price_nuc; items.push(item).
order_add_item(o, item) ==
    [o EXCEPT !.total_nuc = @ + item.price_nuc, !.items = Append(@, item)]

\* Order::update_status
order_update_status(o, s) == [o EXCEPT !.status = s]

\* ids are fresh UUIDs: the next unused one
NextItemId(o) == Len(o.items) + 1

(***************************************************************************)
(* altis-order/src/changes.rs                                              *)
(***************************************************************************)
is_modifiable(o) == o.status \in {"Proposed", "Locked", "Paid"}

\* position of the item with this id, 0 when there is none
FindItem(o, item_id) ==
    IF \E i \in 1..Len(o.items) : o.items[i].id = item_id
    THEN CHOOSE i \in 1..Len(o.items) : o.items[i].id = item_id
    ELSE 0

\* ChangeHandler::add_item as a function: <<result, order>>
ch_add_item(o, item) ==
    IF ~is_modifiable(o) THEN <<"OrderNotModifiable", o>>
    ELSE <<"Ok", order_add_item(o, item)>>

\* a refund that deletes the item instead of flipping its status
ch_refund_item_deleting(o, item_id) ==
    LET i == FindItem(o, item_id) IN
    IF i = 0 THEN <<"ItemNotFound", o>>
    ELSE IF o.items[i].status # "ACTIVE" THEN <<"ItemNotActive", o>>
    ELSE LET o1 == [o EXCEPT !.items = SubSeq(@, 1, i - 1) \o SubSeq(@, i + 1, Len(@))]
         IN <<"Ok", [o1 EXCEPT !.total_nuc = calculate_active_total(o1)]>>

\* ChangeHandler::refund_item as a function: <<result, order>>
ch_refund_item(o, item_id) ==
    LET i == FindItem(o, item_id) IN
    IF i = 0 THEN <<"ItemNotFound", o>>
    ELSE IF o.items[i].status # "ACTIVE" THEN <<"ItemNotActive", o>>
    ELSE LET o1 == [o EXCEPT !.items[i].status = "REFUNDED"]
         IN <<"Ok", [o1 EXCEPT !.total_nuc = calculate_active_total(o1)]>>

\* ChangeHandler::change_flight: refund_item(old)?; add_item(new)?
ch_change_flight(o, old_id, item) ==
    LET r1 == ch_refund_item(o, old_id) IN
    IF r1[1] # "Ok" THEN r1
    ELSE ch_add_item(r1[2], item)

\* what a call hands back: Ok or the error's name (NONE when
\* process_disruption has no result for the order); a ReaccommodationResult
\* also carries the protected items and the proposed items
ChgRes(r) == [res |-> r, protected_items |-> {}, new_proposed_items |-> <<>>]

OrderAddItem(kind, price, qty) ==
    /\ Len(order.items) < MaxItems
    /\ order' = order_add_item(order, OrderItemNew(NextItemId(order), kind, price, qty))
    /\ chg_result' = ChgRes("Ok")
    /\ UNCHANGED exceptOrder

OrderUpdateStatus(s) ==
    /\ order' = order_update_status(order, s)
    /\ chg_result' = ChgRes("Ok")
    /\ UNCHANGED exceptOrder

ChangeAddItem(kind, price, qty) ==
    /\ LET r == ch_add_item(order, OrderItemNew(NextItemId(order), kind, price, qty))
       IN /\ Len(r[2].items) <= MaxItems
          /\ chg_result' = ChgRes(r[1])
          /\ order' = r[2]
    /\ UNCHANGED exceptOrder

ChangeRefundItem(item_id) ==
    /\ LET r == ch_refund_item(order, item_id)
       IN /\ chg_result' = ChgRes(r[1])
          /\ order' = r[2]
    /\ UNCHANGED exceptOrder

ChangeFlight(old_id, kind, price, qty) ==
    /\ LET r == ch_change_flight(order, old_id, OrderItemNew(NextItemId(order), kind, price, qty))
       IN /\ Len(r[2].items) <= MaxItems
          /\ chg_result' = ChgRes(r[1])
          /\ order' = r[2]
    /\ UNCHANGED exceptOrder

(***************************************************************************)
(* altis-order/src/disruption.rs                                           *)
(***************************************************************************)
FlightStatus == {"Scheduled", "Delayed", "Cancelled", "Diverted"}

\* the items process_disruption protects: FLIGHT items whose metadata
\* flight_id is the disrupted flight, whatever their current status
Affected(o, flight_id) ==
    {i \in 1..Len(o.items) :
        o.items[i].product_type = "FLIGHT" /\ o.items[i].flight_id = flight_id}

\* process_disruption on one order: items flipped to PROTECTED in place;
\* total_nuc and status are not written
disruption_order(o, flight_id, new_status) ==
    IF new_status \in {"Cancelled", "Delayed"}
    THEN [o EXCEPT !.items = [i \in 1..Len(o.items) |->
                                IF i \in Affected(o, flight_id)
                                THEN [o.items[i] EXCEPT !.status = "PROTECTED"]
                                ELSE o.items[i]]]
    ELSE o

\* the ReaccommodationResult returned for the order (NONE when nothing was
\* protected): the protected ids and the proposed REACCOMMODATED item, which
\* is returned to the caller and not pushed onto order.items
disruption_result(o, flight_id, new_status, alternatives) ==
    IF new_status \in {"Cancelled", "Delayed"} /\ Affected(o, flight_id) # {}
    THEN [res |-> "Reaccommodation", protected_items |-> Affected(o, flight_id),
          new_proposed_items |->
             IF new_status = "Cancelled" /\ alternatives # <<>>
             THEN << [product_type |-> "FLIGHT", flight_id |-> alternatives[1],
                      price_nuc |-> 0, quantity |-> 1, status |-> "REACCOMMODATED"] >>
             ELSE <<>>]
    ELSE ChgRes(NONE)

ProcessDisruption(flight_id, new_status, alternatives) ==
    /\ order' = disruption_order(order, flight_id, new_status)
    /\ chg_result' = disruption_result(order, flight_id, new_status, alternatives)
    /\ UNCHANGED exceptOrder

(***************************************************************************)
(* altis-order/src/manager.rs                                              *)
(***************************************************************************)
OrderIds == 1..MaxOrders

\* Statuses are written as format!("{:?}", order.status) prints them (the
\* Debug name of the variant); the target of a refused transition is the
\* upper-case literal the code passes.
InvalidTransition(from, to) == [err |-> "InvalidTransition", from |-> from, to |-> to]
NotFound == [err |-> "NotFound"]
OkResult == [err |-> "Ok"]

\* OrderManager::create_order: a new Proposed order under a fresh id
CreateOrder(id) ==
    /\ mgr_orders[id] = NONE
    /\ mgr_orders' = [mgr_orders EXCEPT ![id] = "Proposed"]
    /\ mgr_result' = [op |-> "create_order", id |-> id, res |-> OkResult]
    /\ UNCHANGED exceptMgr

\* the shape shared by lock_order, mark_paid, mark_fulfilled, archive_order:
\* get_order_mut, then the source-state test, then update_status
Transition(op, id, source, target, toName) ==
    /\ mgr_result' = [op |-> op, id |-> id,
                      res |-> IF mgr_orders[id] = NONE THEN NotFound
                              ELSE IF mgr_orders[id] # source
                                   THEN InvalidTransition(mgr_orders[id], toName)
                                   ELSE OkResult]
    /\ mgr_orders' = IF mgr_orders[id] = source
                     THEN [mgr_orders EXCEPT ![id] = target]
                     ELSE mgr_orders
    /\ UNCHANGED exceptMgr

lock_order(id)     == Transition("lock_order", id, "Proposed", "Locked", "LOCKED")
\* mark_paid with the source-state test against the wrong state
mark_paid_skips_lock(id) == Transition("mark_paid", id, "Proposed", "Paid", "PAID")
mark_paid(id)      == Transition("mark_paid", id, "Locked", "Paid", "PAID")
mark_fulfilled(id) == Transition("mark_fulfilled", id, "Paid", "Fulfilled", "FULFILLED")
archive_order(id)  == Transition("archive_order", id, "Fulfilled", "Archived", "ARCHIVED")

\* a cancel_order that refuses Archived only
mgr_cancel_delivered(id) ==
    /\ mgr_result' = [op |-> "cancel_order", id |-> id,
                      res |-> IF mgr_orders[id] = NONE THEN NotFound
                              ELSE IF mgr_orders[id] = "Archived"
                                   THEN InvalidTransition(mgr_orders[id], "CANCELLED")
                                   ELSE OkResult]
    /\ mgr_orders' = IF mgr_orders[id] \notin {NONE, "Archived"}
                     THEN [mgr_orders EXCEPT ![id] = "Cancelled"]
                     ELSE mgr_orders
    /\ UNCHANGED exceptMgr

\* OrderManager::cancel_order: refused from Fulfilled and Archived only
mgr_cancel_order(id) ==
    /\ mgr_result' = [op |-> "cancel_order", id |-> id,
                      res |-> IF mgr_orders[id] = NONE THEN NotFound
                              ELSE IF mgr_orders[id] \in {"Fulfilled", "Archived"}
                                   THEN InvalidTransition(mgr_orders[id], "CANCELLED")
                                   ELSE OkResult]
    /\ mgr_orders' = IF mgr_orders[id] \notin {NONE, "Fulfilled", "Archived"}
                     THEN [mgr_orders EXCEPT ![id] = "Cancelled"]
                     ELSE mgr_orders
    /\ UNCHANGED exceptMgr

(***************************************************************************)
(* altis-api/src/middleware/resiliency.rs                                  *)
(*                                                                         *)
(* A request task runs circuit_breaker_middleware: check(), then the       *)
(* downstream handler (next.run), then record_failure or record_success.   *)
(* check() takes the state read lock, releases it, takes the last_failure  *)
(* read lock, releases it, and only then the state write lock: three       *)
(* steps.  record_failure updates the atomic counter before it takes the   *)
(* state write lock: two steps.  record_success runs under the state write *)
(* lock: one step.                                                         *)
(***************************************************************************)
Clients == 1..NumClients
CircuitState == {"Closed", "Open", "HalfOpen"}

CbIdle == [pc |-> "idle", count |-> 0, probe |-> FALSE, ran |-> FALSE, resp |-> 0]

\* the comparison with >= in place of >
elapsed_reaches(instant) == now - instant >= ResetTimeout

\* instant.elapsed() > self.reset_timeout
elapsed_exceeds(instant) == now - instant > ResetTimeout

\* check(), first read: `let state = *self.state.read().await`.  Closed
\* returns true at once, HalfOpen falls through to the final `true`; both
\* are admitted and the middleware calls next.run.  Open goes on to read
\* last_failure.
CheckReadState(p) ==
    /\ cb_req[p].pc = "idle"
    /\ cb_started < MaxRequests
    /\ cb_started' = cb_started + 1
    /\ cb_req' = [cb_req EXCEPT ![p] =
          IF cb_state = "Open"
          THEN [CbIdle EXCEPT !.pc = "chk_last"]
          ELSE [CbIdle EXCEPT !.pc = "run", !.ran = TRUE,
                              !.probe = (cb_state = "HalfOpen")]]
    /\ UNCHANGED <<cb_state, failure_count, last_failure, cb_streak, exceptCB>>

\* check(), Open branch: read last_failure and compare the elapsed time.
\* Not elapsed (or no instant): check returns false and the middleware
\* answers 503 without calling next.run or recording anything.
CheckReadLastFailure(p) ==
    /\ cb_req[p].pc = "chk_last"
    /\ cb_req' = [cb_req EXCEPT ![p] =
          IF last_failure # <<>> /\ elapsed_exceeds(last_failure[1])
          THEN [@ EXCEPT !.pc = "chk_write"]
          ELSE [@ EXCEPT !.pc = "idle", !.resp = 503]]
    /\ UNCHANGED <<cb_state, failure_count, last_failure, cb_started, cb_streak, exceptCB>>

\* check(), Open branch after the timeout: take the write lock, store
\* HalfOpen, return true.
CheckWriteHalfOpen(p) ==
    /\ cb_req[p].pc = "chk_write"
    /\ cb_state' = "HalfOpen"
    /\ cb_req' = [cb_req EXCEPT ![p] = [@ EXCEPT !.pc = "run", !.ran = TRUE, !.probe = TRUE]]
    /\ UNCHANGED <<failure_count, last_failure, cb_started, cb_streak, exceptCB>>

\* next.run(req) returns: a 5xx response is a failure, anything else a
\* success
HandlerReturn(p, server_error) ==
    /\ cb_req[p].pc = "run"
    /\ cb_req' = [cb_req EXCEPT ![p] =
          IF server_error THEN [@ EXCEPT !.pc = "rec_failure", !.resp = 500]
                          ELSE [@ EXCEPT !.pc = "rec_success", !.resp = 200]]
    /\ UNCHANGED <<cb_state, failure_count, last_failure, cb_started, cb_streak, exceptCB>>

\* the state and counter record_success leaves
record_success_state == IF cb_state = "HalfOpen" THEN "Closed" ELSE cb_state
\* record_success without the store(0)
record_success_keeps_count == failure_count
record_success_count == IF cb_state \in {"HalfOpen", "Closed"} THEN 0 ELSE failure_count

RecordSuccess(p) ==
    /\ cb_req[p].pc = "rec_success"
    /\ cb_state' = record_success_state
    /\ failure_count' = record_success_count
    /\ cb_streak' = 0
    /\ cb_req' = [cb_req EXCEPT ![p] = [@ EXCEPT !.pc = "idle", !.probe = FALSE]]
    /\ UNCHANGED <<last_failure, cb_started, exceptCB>>

\* record_failure, first statement: count = failure_count.fetch_add(1) + 1
RecordFailureAdd(p) ==
    /\ cb_req[p].pc = "rec_failure"
    /\ failure_count' = failure_count + 1
    /\ cb_streak' = cb_streak + 1
    /\ cb_req' = [cb_req EXCEPT ![p] = [@ EXCEPT !.pc = "rf_lock", !.count = failure_count + 1]]
    /\ UNCHANGED <<cb_state, last_failure, cb_started, exceptCB>>

\* the threshold test with > in place of >=
trips_above_threshold(count) == count > FailureThreshold \/ cb_state = "HalfOpen"

\* record_failure's test under the state write lock
trips(count) == count >= FailureThreshold \/ cb_state = "HalfOpen"

\* record_failure, under the state write lock: trip to Open and stamp
\* last_failure
RecordFailureLock(p) ==
    /\ cb_req[p].pc = "rf_lock"
    /\ cb_state' = IF trips(cb_req[p].count) THEN "Open" ELSE cb_state
    /\ last_failure' = IF trips(cb_req[p].count) THEN <<now>> ELSE last_failure
    /\ cb_req' = [cb_req EXCEPT ![p] = [@ EXCEPT !.pc = "idle", !.probe = FALSE]]
    /\ UNCHANGED <<failure_count, cb_started, cb_streak, exceptCB>>

Tick ==
    /\ now < MaxTime
    /\ now' = now + 1
    /\ UNCHANGED exceptClock

(***************************************************************************)
(* altis-order/src/fulfillment.rs, altis-order/src/models.rs (Fulfillment) *)
(* and altis-store/src/order_repo.rs (the fulfillment table)               *)
(***************************************************************************)
ItemIds == {"I1", "I2"}
Locations == {"GATE", "LOUNGE"}

\* generate_barcode: ALTIS-{unix seconds}-{first 8 characters of the item id}
generate_barcode(item) == <<"ALTIS", now, item>>

\* pay_order's token for the fulfillment table: ALTIS-{order id}-{item id}
ApiOrderIds == 1..MaxApiOrders
OfferItemIdx == {1, 2}
RepoBarcodes == {<<"ALTIS", o, i>> : o \in ApiOrderIds, i \in OfferItemIdx}

\* Fulfillment::new
FulfillmentNew(item, barcode) ==
    [order_item_id |-> item, barcode_token |-> barcode,
     is_consumed |-> FALSE, consumed_at |-> <<>>]

\* Fulfillment::consume
fulfillment_consume(f) == [f EXCEPT !.is_consumed = TRUE, !.consumed_at = <<now>>]

InsertAt(s, k, e) == SubSeq(s, 1, k - 1) \o <<e>> \o SubSeq(s, k, Len(s))

FulCall(op, barcode, res) ==
    [seq |-> ful_result.seq + 1, op |-> op, barcode |-> barcode, res |-> res]

\* generate_fulfillment: the record goes into the HashMap under a fresh
\* Uuid, so its place in the iteration order is arbitrary
GenerateFulfillment(item) ==
    /\ Len(ful_svc) < MaxFulfillments
    /\ ful_result.seq < MaxFulCalls
    /\ \E k \in 1..(Len(ful_svc) + 1) :
          ful_svc' = InsertAt(ful_svc, k, FulfillmentNew(item, generate_barcode(item)))
    /\ ful_result' = FulCall("generate_fulfillment", generate_barcode(item), "Ok")
    /\ UNCHANGED <<ful_rows, exceptFul>>

\* values_mut().find(|f| f.barcode_token == barcode): the first match in
\* iteration order, 0 for none
FindByBarcode(barcode) ==
    IF \E i \in 1..Len(ful_svc) : ful_svc[i].barcode_token = barcode
    THEN CHOOSE i \in 1..Len(ful_svc) :
            /\ ful_svc[i].barcode_token = barcode
            /\ \A j \in 1..(i - 1) : ful_svc[j].barcode_token # barcode
    ELSE 0

\* FulfillmentService::consume
ServiceConsume(barcode) ==
    /\ ful_result.seq < MaxFulCalls
    /\ LET i == FindByBarcode(barcode) IN
          IF i = 0
          THEN /\ ful_result' = FulCall("consume", barcode, "NotFound")
               /\ UNCHANGED ful_svc
          ELSE IF ful_svc[i].is_consumed
          THEN /\ ful_result' = FulCall("consume", barcode, "AlreadyConsumed")
               /\ UNCHANGED ful_svc
          ELSE /\ ful_svc' = [ful_svc EXCEPT ![i] = fulfillment_consume(@)]
               /\ ful_result' = FulCall("consume", barcode, "Ok")
    /\ UNCHANGED <<ful_rows, exceptFul>>

NoRow == [present |-> FALSE, consumed_at |-> <<>>, consumption_location |-> NONE]

\* create_fulfillment: INSERT INTO fulfillment (.., barcode); pay_order
\* issues one row for each item of the order
RepoCreateFulfillment(barcode) ==
    /\ ~ful_rows[barcode].present
    /\ ful_result.seq < MaxFulCalls
    /\ ful_rows' = [ful_rows EXCEPT ![barcode] = [NoRow EXCEPT !.present = TRUE]]
    /\ ful_result' = FulCall("create_fulfillment", barcode, "Ok")
    /\ UNCHANGED <<ful_svc, exceptFul>>

\* consume_fulfillment: UPDATE fulfillment SET consumed_at = NOW(),
\* consumption_location = $2 WHERE barcode = $1 RETURNING ..; fetch_one
\* fails when no row matches
RepoConsumeFulfillment(barcode, location) ==
    /\ ful_result.seq < MaxFulCalls
    /\ IF ful_rows[barcode].present
       THEN /\ ful_rows' = [ful_rows EXCEPT ![barcode] =
                   [@ EXCEPT !.consumed_at = <<now>>, !.consumption_location = location]]
            /\ ful_result' = FulCall("consume_fulfillment", barcode, "Ok")
       ELSE /\ ful_result' = FulCall("consume_fulfillment", barcode, "RowNotFound")
            /\ UNCHANGED ful_rows
    /\ UNCHANGED <<ful_svc, exceptFul>>

(***************************************************************************)
(* altis-api/src/holds.rs and the Redis operations it calls                *)
(***************************************************************************)
Users == {"U1", "U2"}
Trips == {1, 2}
SeatNumbers == {"1A"}
HoldReqs == 1..NumHoldReqs

\* a trip hash: state "none" before create_trip_hold, "live" while the key
\* exists, and "gone" once its TTL has run out; flights {} and owner NONE
\* when the field is not in the hash; pax: a pax:{id} field is in the hash;
\* ttl: the key carries a TTL
NoTrip == [state |-> "none", flights |-> {}, owner |-> NONE, pax |-> FALSE, ttl |-> FALSE]
\* a seat key: holder 0 when the key does not exist; epoch 0 until its TTL
\* has run out, 1 from then on
NoLock == [holder |-> 0, epoch |-> 0]

\* create_trip_hold: hset flights, hset owner, hset status, expire.  The
\* trip id is a fresh Uuid that no other request knows before the response
\* (ids are handed out in order).
CreateTripHold(t, user, flights) ==
    /\ trip_hash[t].state = "none"
    /\ \A u \in Trips : u < t => trip_hash[u].state # "none"
    /\ flights # {}
    /\ trip_hash' = [trip_hash EXCEPT ![t] =
          [NoTrip EXCEPT !.state = "live", !.flights = flights, !.owner = user, !.ttl = TRUE]]
    /\ UNCHANGED <<seat_lock, hold_req, kafka_log, sse_log, exceptSeat>>

\* create_trip_hold answered 500 by a cache error after k of its commands
\* took effect: hset flights, hset owner, hset status; the expire is not
\* reached, or is the command that fails
CreateTripHoldFails(t, user, flights, k) ==
    /\ trip_hash[t].state = "none"
    /\ \A u \in Trips : u < t => trip_hash[u].state # "none"
    /\ flights # {}
    /\ k \in 1..3
    /\ trip_hash' = [trip_hash EXCEPT ![t] =
          [NoTrip EXCEPT !.state = "live", !.flights = flights,
                         !.owner = IF k >= 2 THEN user ELSE NONE]]
    /\ UNCHANGED <<seat_lock, hold_req, kafka_log, sse_log, exceptSeat>>

\* exp_trip_key(trip, ttl): the hash disappears when the TTL runs out
TripExpires(t) ==
    /\ trip_hash[t].state = "live"
    /\ trip_hash[t].ttl
    /\ trip_hash' = [trip_hash EXCEPT ![t] = [NoTrip EXCEPT !.state = "gone"]]
    /\ UNCHANGED <<seat_lock, hold_req, kafka_log, sse_log, exceptSeat>>

\* SET .. EX ttl: the seat key disappears when the TTL runs out (followed
\* for the first expiry of each key)
SeatLockExpires(k) ==
    /\ seat_lock[k].holder # 0
    /\ seat_lock[k].epoch = 0
    /\ seat_lock' = [seat_lock EXCEPT ![k] = [holder |-> 0, epoch |-> 1]]
    /\ UNCHANGED <<trip_hash, hold_req, kafka_log, sse_log, exceptSeat>>

HoldIdle ==
    [pc |-> "idle", sub |-> NONE, trip |-> 0, flight |-> NONE, seat |-> NONE,
     owner_opt |-> NONE, locked |-> FALSE, epoch |-> 0, held_at |-> 0, resp |-> 0]

\* hget_trip_field(trip, "owner"): None when the hash does not exist
hget_owner(t) == IF trip_hash[t].state = "live" THEN trip_hash[t].owner ELSE NONE

\* create_seat_hold, first await: hget owner (requests are numbered in the
\* order they start)
SeatHoldGetOwner(r, sub, t, flight, seat) ==
    /\ hold_req[r].pc = "idle"
    /\ \A q \in HoldReqs : q < r => hold_req[q].pc # "idle"
    /\ hold_req' = [hold_req EXCEPT ![r] =
          [HoldIdle EXCEPT !.pc = "flights", !.sub = sub, !.trip = t, !.flight = flight,
                           !.seat = seat, !.owner_opt = hget_owner(t)]]
    /\ UNCHANGED <<trip_hash, seat_lock, kafka_log, sse_log, exceptSeat>>

\* add_trip_passenger, first await: hget owner; no owner is answered 500,
\* another user's trip 403
PassengerGetOwner(r, sub, t) ==
    /\ hold_req[r].pc = "idle"
    /\ \A q \in HoldReqs : q < r => hold_req[q].pc # "idle"
    /\ LET q == [HoldIdle EXCEPT !.sub = sub, !.trip = t, !.owner_opt = hget_owner(t)] IN
          hold_req' = [hold_req EXCEPT ![r] =
             IF q.owner_opt = NONE THEN [q EXCEPT !.pc = "done", !.resp = 500]
             ELSE IF q.owner_opt # sub THEN [q EXCEPT !.pc = "done", !.resp = 403]
             ELSE [q EXCEPT !.pc = "pax"]]
    /\ UNCHANGED <<trip_hash, seat_lock, kafka_log, sse_log, exceptSeat>>

\* hset_trip_field(trip, field, value): HSET adds the field to the hash and
\* creates the key, with no TTL, when it does not exist
hset_trip_pax(t) ==
    IF trip_hash[t].state = "live" THEN [trip_hash[t] EXCEPT !.pax = TRUE]
    ELSE [NoTrip EXCEPT !.state = "live", !.pax = TRUE]

\* add_trip_passenger, second await: hset pax:{id}; a cache error is
\* answered 500
PassengerHset(r, ok) ==
    /\ hold_req[r].pc = "pax"
    /\ trip_hash' = IF ok THEN [trip_hash EXCEPT ![hold_req[r].trip] = hset_trip_pax(hold_req[r].trip)]
                    ELSE trip_hash
    /\ hold_req' = [hold_req EXCEPT ![r] = [@ EXCEPT !.pc = "done", !.resp = IF ok THEN 200 ELSE 500]]
    /\ UNCHANGED <<seat_lock, kafka_log, sse_log, exceptSeat>>

\* the response create_seat_hold's validation gives, 0 when it passes:
\* 404 no owner, 403 another user's trip, 500 no flights field, 400 flight
\* not part of the trip
hold_validation(q) ==
    IF q.owner_opt = NONE THEN 404
    ELSE IF q.owner_opt # q.sub THEN 403
    ELSE IF trip_hash[q.trip].state # "live" THEN 500
    ELSE IF q.flight \notin trip_hash[q.trip].flights THEN 400
    ELSE 0

\* create_seat_hold, second await: hget flights, then the validation
SeatHoldGetFlights(r) ==
    /\ hold_req[r].pc = "flights"
    /\ LET v == hold_validation(hold_req[r]) IN
          hold_req' = [hold_req EXCEPT ![r] =
             IF v = 0 THEN [@ EXCEPT !.pc = "lock"]
             ELSE [@ EXCEPT !.pc = "done", !.resp = v]]
    /\ UNCHANGED <<trip_hash, seat_lock, kafka_log, sse_log, exceptSeat>>

\* SET without NX
acquire_always(k) == TRUE

\* acquire_seat_lock: SET key trip NX EX ttl answers OK only when the key
\* does not exist
acquire_seat_lock(k) == seat_lock[k].holder = 0

\* create_seat_hold, third await: the lock.  The winner builds the event
\* with held_at = now; a loser is answered 409
SeatHoldAcquire(r) ==
    /\ hold_req[r].pc = "lock"
    /\ LET k == <<hold_req[r].flight, hold_req[r].seat>> IN
          IF acquire_seat_lock(k)
          THEN /\ seat_lock' = [seat_lock EXCEPT ![k] = [@ EXCEPT !.holder = hold_req[r].trip]]
               /\ hold_req' = [hold_req EXCEPT ![r] =
                      [@ EXCEPT !.pc = "publish", !.locked = TRUE, !.held_at = now,
                                !.epoch = seat_lock[k].epoch]]
          ELSE /\ hold_req' = [hold_req EXCEPT ![r] =
                      [@ EXCEPT !.pc = "done", !.resp = 409, !.epoch = seat_lock[k].epoch]]
               /\ UNCHANGED seat_lock
    /\ UNCHANGED <<trip_hash, kafka_log, sse_log, exceptSeat>>

SeatHeldEvent(q) ==
    [flight_id |-> q.flight, seat_number |-> q.seat, trip_id |-> q.trip, held_at |-> q.held_at]

\* create_seat_hold, fourth await: kafka.publish("holds.created", ..)
SeatHoldPublish(r) ==
    /\ hold_req[r].pc = "publish"
    /\ kafka_log' = Append(kafka_log, SeatHeldEvent(hold_req[r]))
    /\ hold_req' = [hold_req EXCEPT ![r] = [@ EXCEPT !.pc = "sse"]]
    /\ UNCHANGED <<trip_hash, seat_lock, sse_log, exceptSeat>>

\* create_seat_hold, end: sse_tx.send(event) and the 200 HELD response
SeatHoldSend(r) ==
    /\ hold_req[r].pc = "sse"
    /\ sse_log' = Append(sse_log, SeatHeldEvent(hold_req[r]))
    /\ hold_req' = [hold_req EXCEPT ![r] = [@ EXCEPT !.pc = "done", !.resp = 200]]
    /\ UNCHANGED <<trip_hash, seat_lock, kafka_log, exceptSeat>>

(***************************************************************************)
(* altis-api/src/offers.rs (accept_offer), altis-api/src/orders.rs         *)
(* (pay_order, cancel_order, involuntary_refund), altis-api/src/           *)
(* webhooks.rs and altis-store/src/flight_repo.rs (search_flights), over   *)
(* the order tables and the availability cache.                            *)
(*                                                                         *)
(* A request task runs one handler.  Every await that reads or writes the  *)
(* database or the cache is a step of its own; audit and telemetry writes, *)
(* whose results the handlers discard, are taken with the step they        *)
(* follow.                                                                 *)
(***************************************************************************)
ApiTasks == 1..NumApiTasks

FlightItem(f) == [product_type |-> "Flight", product_id |-> f]
MealItem == [product_type |-> "Meal", product_id |-> "M1"]

\* the offers in the store
Offers ==
    [A |-> [items |-> <<FlightItem("F1"), MealItem>>, expires_at |-> OfferTtl],
     B |-> [items |-> <<FlightItem("F2"), FlightItem("F1")>>, expires_at |-> OfferTtl]]

\* an expiry test that is one tick late
is_expired_late(offer) == now > offer.expires_at + 1

\* Offer::is_expired: Utc::now() > self.expires_at
is_expired(offer) == now > offer.expires_at

\* PaymentAdapter::process_payment's answers as pay_order tells them apart
PaymentOutcomes == {"Err", "Succeeded", "Processing", "Failed"}
\* PaymentAdapter::get_intent's status as the webhook tells it apart
IntentStatuses == {"Succeeded", "Failed", "Processing"}

NoOrder == [status |-> "NONE", offer |-> NONE, items |-> <<>>, expires_at |-> 0]

ApiIdle ==
    [op |-> "none", pc |-> "idle", offer |-> "A", order |-> 0, idx |-> 0, items |-> <<>>,
     current |-> 0, expires_at |-> 0, resp |-> 0, wrote |-> FALSE, held |-> <<>>,
     outcome |-> NONE]

\* a request is taken by the first idle task
ApiStart(t) ==
    /\ api_task[t].pc = "idle"
    /\ \A u \in ApiTasks : u < t => api_task[u].pc # "idle"
    /\ api_calls < MaxApiCalls
    /\ api_calls' = api_calls + 1
ApiSet(t, q) == api_task' = [api_task EXCEPT ![t] = q]
\* the handler returns: what stays is the operation, its offer or order,
\* the response, and whether it changed the order's status
ApiDone(q, resp) ==
    [ApiIdle EXCEPT !.op = q.op, !.offer = q.offer, !.order = q.order, !.resp = resp,
                    !.wrote = q.wrote, !.outcome = q.outcome]

\* update_order_status: UPDATE orders SET status = $1 WHERE id = $2
update_order_status(o, status) ==
    IF db_orders[o].status = "NONE" THEN db_orders
    ELSE [db_orders EXCEPT ![o].status = status]

\* the first index from i on of a Flight item, Len + 1 when there is none
RECURSIVE NextFlightIdx(_, _)
NextFlightIdx(items, i) ==
    IF i > Len(items) THEN i
    ELSE IF items[i].product_type = "Flight" THEN i
    ELSE NextFlightIdx(items, i + 1)

IsFlight(item) == item.product_type = "Flight"

\* search_flights, cache lookup: a hit uses the cached count
SearchFlights(t, f) ==
    /\ ApiStart(t)
    /\ ApiSet(t, IF avail[f] = <<>>
                 THEN [ApiIdle EXCEPT !.op = "search_flights", !.pc = "seed", !.items = <<FlightItem(f)>>]
                 ELSE ApiDone([ApiIdle EXCEPT !.op = "search_flights"], 200))
    /\ UNCHANGED <<avail, db_orders, db_changes, telemetry, ful_rows, exceptApi>>

\* search_flights, cache miss: capacity - COUNT(passenger_seats), written
\* to the cache (no handler of this API writes passenger_seats)
SearchSeed(t) ==
    /\ api_task[t].pc = "seed"
    /\ avail' = [avail EXCEPT ![api_task[t].items[1].product_id] = <<Capacity>>]
    /\ ApiSet(t, ApiDone(api_task[t], 200))
    /\ UNCHANGED <<db_orders, db_changes, telemetry, api_calls, ful_rows, exceptApi>>

\* accept_offer up to the hold loop: get_offer, the expiry test (410), the
\* telemetry event, expires_at = now + hold duration
AcceptGetOffer(t, id) ==
    /\ ApiStart(t)
    /\ Cardinality({o \in ApiOrderIds : db_orders[o].status # "NONE"})
         + Cardinality({u \in ApiTasks : api_task[u].op = "accept_offer"
                                          /\ api_task[u].pc \in {"hold", "rollback", "create"}})
         < MaxApiOrders
    /\ LET q == [ApiIdle EXCEPT !.op = "accept_offer", !.offer = id]
           first == NextFlightIdx(Offers[id].items, 1) IN
          IF is_expired(Offers[id])
          THEN /\ ApiSet(t, ApiDone(q, 410))
               /\ UNCHANGED telemetry
          ELSE /\ ApiSet(t, [q EXCEPT !.pc = IF first > Len(Offers[id].items) THEN "create" ELSE "hold",
                                      !.idx = first, !.expires_at = now + HoldTicks])
               /\ telemetry' = telemetry \cup {[type |-> "offer_accepted", offer |-> id, order |-> 0]}
    /\ UNCHANGED <<avail, db_orders, db_changes, ful_rows, exceptApi>>

\* accept_offer, hold loop, one Flight item: decr_flight_availability.  The
\* script answers nil for an absent key (the loop goes on), else the
\* decremented count; a negative count leads to the rollback and 409.
\* held lists the flights this call has decremented.
AcceptHold(t) ==
    /\ api_task[t].pc = "hold"
    /\ LET q == api_task[t]
           items == Offers[q.offer].items
           f == items[q.idx].product_id
           next == NextFlightIdx(items, q.idx + 1)
           on == [q EXCEPT !.idx = next, !.pc = IF next > Len(items) THEN "create" ELSE "hold"] IN
          IF avail[f] = <<>>
          THEN /\ UNCHANGED avail
               /\ ApiSet(t, on)
          ELSE /\ avail' = [avail EXCEPT ![f] = <<avail[f][1] - 1>>]
               /\ ApiSet(t, IF avail[f][1] - 1 < 0
                            THEN [q EXCEPT !.pc = "rollback", !.held = Append(@, f)]
                            ELSE [on EXCEPT !.held = Append(@, f)])
    /\ UNCHANGED <<db_orders, db_changes, telemetry, api_calls, ful_rows, exceptApi>>

\* accept_offer, hold loop: decr_flight_availability answers Err (the
\* command did not run); the handler returns 500 at once
AcceptHoldError(t) ==
    /\ api_task[t].pc = "hold"
    /\ ApiSet(t, ApiDone(api_task[t], 500))
    /\ UNCHANGED <<avail, db_orders, db_changes, telemetry, api_calls, ful_rows, exceptApi>>

\* accept_offer: create_order answers Err; the handler returns 500 at once
AcceptCreateOrderFails(t) ==
    /\ api_task[t].pc = "create"
    /\ ApiSet(t, ApiDone(api_task[t], 500))
    /\ UNCHANGED <<avail, db_orders, db_changes, telemetry, api_calls, ful_rows, exceptApi>>

\* accept_offer, underflow: set_flight_availability(pid, 0), answer 409
AcceptRollback(t) ==
    /\ api_task[t].pc = "rollback"
    /\ LET q == api_task[t] IN
          /\ avail' = [avail EXCEPT ![Offers[q.offer].items[q.idx].product_id] = <<0>>]
          /\ ApiSet(t, ApiDone(q, 409))
    /\ UNCHANGED <<db_orders, db_changes, telemetry, api_calls, ful_rows, exceptApi>>

\* accept_offer: create_order with status PROPOSED and no items
AcceptCreateOrder(t) ==
    /\ api_task[t].pc = "create"
    /\ \E o \in ApiOrderIds :
          /\ db_orders[o].status = "NONE"
          /\ \A u \in ApiOrderIds : u < o => db_orders[u].status # "NONE"
          /\ db_orders' = [db_orders EXCEPT ![o] =
                [status |-> "PROPOSED", offer |-> api_task[t].offer, items |-> <<>>,
                 expires_at |-> api_task[t].expires_at]]
          /\ ApiSet(t, [api_task[t] EXCEPT !.pc = "items", !.order = o, !.idx = 1])
    /\ UNCHANGED <<avail, db_changes, telemetry, api_calls, ful_rows, exceptApi>>

\* accept_offer: add_order_item for one offer item; after the last, 200
AcceptAddItem(t) ==
    /\ api_task[t].pc = "items"
    /\ LET q == api_task[t]
           items == Offers[q.offer].items IN
          /\ db_orders' = [db_orders EXCEPT ![q.order].items = Append(@, items[q.idx])]
          /\ ApiSet(t, IF q.idx = Len(items) THEN ApiDone(q, 200) ELSE [q EXCEPT !.idx = q.idx + 1])
    /\ UNCHANGED <<avail, db_changes, telemetry, api_calls, ful_rows, exceptApi>>

\* an order expiry test that is one tick late
order_expired_late(o) == now > db_orders[o].expires_at + 1

\* the handlers' test on the order read: chrono::Utc::now() > expires_at
order_expired(o) == now > db_orders[o].expires_at

\* initialize_payment_intent: get_order (404), the expiry test (410)
IntentGetOrder(t, o) ==
    /\ ApiStart(t)
    /\ LET q == [ApiIdle EXCEPT !.op = "payment_intent", !.order = o] IN
          ApiSet(t, IF db_orders[o].status = "NONE" THEN ApiDone(q, 404)
                    ELSE IF order_expired(o) THEN ApiDone(q, 410)
                    ELSE [q EXCEPT !.pc = "intent"])
    /\ UNCHANGED <<avail, db_orders, db_changes, telemetry, ful_rows, exceptApi>>

\* initialize_payment_intent: initialize_payment returns the intent (200)
\* or an error (500)
IntentCreate(t, created) ==
    /\ api_task[t].pc = "intent"
    /\ ApiSet(t, ApiDone(api_task[t], IF created THEN 200 ELSE 500))
    /\ UNCHANGED <<avail, db_orders, db_changes, telemetry, api_calls, ful_rows, exceptApi>>

\* pay_order: get_order (404), the expiry test (410)
PayGetOrder(t, o) ==
    /\ ApiStart(t)
    /\ LET q == [ApiIdle EXCEPT !.op = "pay_order", !.order = o] IN
          ApiSet(t, IF db_orders[o].status = "NONE" THEN ApiDone(q, 404)
                    ELSE IF order_expired(o) THEN ApiDone(q, 410)
                    ELSE [q EXCEPT !.pc = "pending", !.items = db_orders[o].items])
    /\ UNCHANGED <<avail, db_orders, db_changes, telemetry, ful_rows, exceptApi>>

\* pay_order: update_order_status(order_id, "PAYMENT_PENDING")
PaySetPending(t) ==
    /\ api_task[t].pc = "pending"
    /\ LET q == api_task[t] IN
          /\ db_orders' = update_order_status(q.order, "PAYMENT_PENDING")
          /\ ApiSet(t, [q EXCEPT !.pc = "process",
                                 !.wrote = (db_orders[q.order].status # "PAYMENT_PENDING")])
    /\ UNCHANGED <<avail, db_changes, telemetry, api_calls, ful_rows, exceptApi>>

\* a pay_order that treats every status but Succeeded as a failed payment
pay_response_strict(outcome) == IF outcome = "Err" THEN 500 ELSE 402

\* pay_order's answer when the payment has not succeeded: an adapter error
\* is 500, Processing is Ok (the order as read), anything else 402
pay_response(outcome) ==
    CASE outcome = "Err" -> 500
      [] outcome = "Processing" -> 200
      [] OTHER -> 402

\* pay_order: process_payment returns.  Err: 500.  Processing: 200, the
\* order stays PAYMENT_PENDING.  Any other status but Succeeded: 402.
\* Succeeded: update_order_status(order_id, "PAID"), the audit change, the
\* order_paid and settlement events.
PayProcess(t, outcome) ==
    /\ api_task[t].pc = "process"
    /\ LET q == api_task[t] IN
          IF outcome = "Succeeded"
          THEN /\ db_orders' = update_order_status(q.order, "PAID")
               /\ db_changes' = db_changes \cup {[order |-> q.order, type |-> "PAYMENT_RECEIVED"]}
               /\ telemetry' = telemetry \cup {[type |-> "order_paid", offer |-> NONE, order |-> q.order],
                                               [type |-> "settlement:PAYMENT", offer |-> NONE, order |-> q.order]}
               /\ ApiSet(t, [q EXCEPT !.pc = "fulfil", !.outcome = outcome,
                                      !.wrote = (q.wrote \/ db_orders[q.order].status # "PAID")])
          ELSE /\ ApiSet(t, ApiDone([q EXCEPT !.outcome = outcome], pay_response(outcome)))
               /\ UNCHANGED <<db_orders, db_changes, telemetry>>
    /\ UNCHANGED <<avail, api_calls, ful_rows, exceptApi>>

\* pay_order: create_fulfillment for every item read by get_order, barcode
\* ALTIS-{order}-{item}; then 200
PayFulfil(t) ==
    /\ api_task[t].pc = "fulfil"
    /\ LET q == api_task[t] IN
          /\ ful_rows' = [b \in RepoBarcodes |->
                IF b[2] = q.order /\ b[3] \in 1..Len(q.items) /\ ~ful_rows[b].present
                THEN [NoRow EXCEPT !.present = TRUE] ELSE ful_rows[b]]
          /\ ApiSet(t, ApiDone(q, 200))
    /\ UNCHANGED <<avail, db_orders, db_changes, telemetry, api_calls, exceptApi>>

\* cancel_order: get_order (404); an order already CANCELLED is answered 204
\* at once
CancelGetOrder(t, o) ==
    /\ ApiStart(t)
    /\ LET q == [ApiIdle EXCEPT !.op = "cancel_order", !.order = o] IN
          ApiSet(t, IF db_orders[o].status = "NONE" THEN ApiDone(q, 404)
                    ELSE IF db_orders[o].status = "CANCELLED" THEN ApiDone(q, 204)
                    ELSE [q EXCEPT !.pc = "cancel", !.items = db_orders[o].items])
    /\ UNCHANGED <<avail, db_orders, db_changes, telemetry, ful_rows, exceptApi>>

\* the end of cancel_order (audit change, 204) or of the webhook (200)
ReleaseEnd(q) == ApiDone(q, IF q.op = "cancel_order" THEN 204 ELSE 200)
ReleaseAudit(q) ==
    IF q.op = "cancel_order" THEN {[order |-> q.order, type |-> "CANCELLED"]} ELSE {}

\* the release loop starts with the Flight items of the order that was read
StartRelease(q, items) ==
    LET todo == SelectSeq(items, IsFlight) IN
       IF todo = <<>> THEN ReleaseEnd(q) ELSE [q EXCEPT !.pc = "rel_get", !.items = todo]

\* cancel_order: update_order_status(order_id, "CANCELLED")
CancelUpdate(t) ==
    /\ api_task[t].pc = "cancel"
    /\ LET q == [api_task[t] EXCEPT !.wrote = (db_orders[api_task[t].order].status # "CANCELLED")]
           r == StartRelease(q, q.items) IN
          /\ db_orders' = update_order_status(q.order, "CANCELLED")
          /\ ApiSet(t, r)
          /\ db_changes' = IF r.pc = "idle" THEN db_changes \cup ReleaseAudit(q) ELSE db_changes
    /\ UNCHANGED <<avail, telemetry, api_calls, ful_rows, exceptApi>>

\* release, first half: current = get_flight_availability(..)
\* .unwrap_or(Some(0)).unwrap_or(0)
ReleaseGet(t) ==
    /\ api_task[t].pc = "rel_get"
    /\ LET q == api_task[t]
           f == q.items[1].product_id IN
          ApiSet(t, [q EXCEPT !.pc = "rel_set",
                              !.current = IF avail[f] = <<>> THEN 0 ELSE avail[f][1]])
    /\ UNCHANGED <<avail, db_orders, db_changes, telemetry, api_calls, ful_rows, exceptApi>>

\* release, second half: set_flight_availability(pid, current + 1)
ReleaseSet(t) ==
    /\ api_task[t].pc = "rel_set"
    /\ LET q == api_task[t]
           f == q.items[1].product_id
           rest == Tail(q.items) IN
          /\ avail' = [avail EXCEPT ![f] = <<q.current + 1>>]
          /\ released' = [released EXCEPT ![q.order][f] = @ + 1]
          /\ ApiSet(t, IF rest = <<>> THEN ReleaseEnd(q) ELSE [q EXCEPT !.pc = "rel_get", !.items = rest])
          /\ db_changes' = IF rest = <<>> THEN db_changes \cup ReleaseAudit(q) ELSE db_changes
    /\ UNCHANGED <<db_orders, telemetry, api_calls, ful_rows, exceptRelease>>

\* involuntary_refund: update_order_status(order_id, "CANCELLED"), the audit
\* change, 200
InvoluntaryRefund(t, o) ==
    /\ ApiStart(t)
    /\ db_orders' = update_order_status(o, "CANCELLED")
    /\ db_changes' = IF db_orders[o].status = "NONE" THEN db_changes
                     ELSE db_changes \cup {[order |-> o, type |-> "INVOLUNTARY_REFUND"]}
    /\ ApiSet(t, ApiDone([ApiIdle EXCEPT !.op = "involuntary_refund", !.order = o,
                             !.wrote = (db_orders[o].status \notin {"NONE", "CANCELLED"})], 200))
    /\ UNCHANGED <<avail, telemetry, ful_rows, exceptApi>>

\* handle_stripe_webhook: process_status_update gives the intent with the
\* provider's status.  Succeeded: update to PAID, 200.  Failed or Canceled:
\* update to CANCELLED, then the release.  Anything else: 200.
Webhook(t, o, status) ==
    /\ ApiStart(t)
    /\ LET q == [ApiIdle EXCEPT !.op = "webhook", !.order = o] IN
          CASE status = "Succeeded" ->
                 /\ db_orders' = update_order_status(o, "PAID")
                 /\ ApiSet(t, ApiDone([q EXCEPT !.wrote = (db_orders[o].status \notin {"NONE", "PAID"})], 200))
            [] status = "Failed" ->
                 /\ db_orders' = update_order_status(o, "CANCELLED")
                 /\ ApiSet(t, [q EXCEPT !.pc = "wh_get",
                                        !.wrote = (db_orders[o].status \notin {"NONE", "CANCELLED"})])
            [] OTHER ->
                 /\ UNCHANGED db_orders
                 /\ ApiSet(t, ApiDone(q, 200))
    /\ UNCHANGED <<avail, db_changes, telemetry, ful_rows, exceptApi>>

\* handle_stripe_webhook, failed payment: get_order, then the release loop
WebhookGetOrder(t) ==
    /\ api_task[t].pc = "wh_get"
    /\ LET q == api_task[t] IN
          ApiSet(t, IF db_orders[q.order].status = "NONE" THEN ApiDone(q, 200)
                    ELSE StartRelease(q, db_orders[q.order].items))
    /\ UNCHANGED <<avail, db_orders, db_changes, telemetry, api_calls, ful_rows, exceptApi>>

(***************************************************************************)
(* altis-api/src/orders.rs (consume_fulfillment) with                      *)
(* altis-order/src/finance.rs (recognize_revenue), over the fulfillment,   *)
(* order_items and order_ledger tables.                                    *)
(*                                                                         *)
(* An item is named by its barcode ALTIS-{order}-{item}.  Each statement   *)
(* sent to the database is a step of its own; the handler discards the     *)
(* results of the ledger insert and of the status update, which may        *)
(* either take effect or fail.                                             *)
(***************************************************************************)
RevTasks == 1..NumRevTasks
RevenueStatus == {"UNEARNED", "EARNED", "REFUNDED"}

\* cancelled is a history field, read by no action: whether the order was
\* CANCELLED when the request consumed the fulfillment row
RevIdle ==
    [pc |-> "idle", barcode |-> <<>>, revenue_status |-> NONE, resp |-> 0,
     cancelled |-> FALSE]

LedgerEntry(item, transaction_type) == [item |-> item, transaction_type |-> transaction_type]

\* FinancialManager::recognize_revenue for an item of the order as read:
\* None unless the item is UNEARNED, else the REVENUE_RECOGNITION entry
recognize_revenue(item, revenue_status) ==
    IF revenue_status # "UNEARNED" THEN <<>>
    ELSE <<LedgerEntry(item, "REVENUE_RECOGNITION")>>

\* an order accepted from offer A and paid by pay_order: the order row is
\* PAID with the offer's items, and the fulfillment loop has written one
\* row for each item
IssueFulfillments(o) ==
    /\ db_orders[o].status = "NONE"
    /\ db_orders' = [db_orders EXCEPT ![o] =
          [status |-> "PAID", offer |-> "A", items |-> Offers["A"].items,
           expires_at |-> now + HoldTicks]]
    /\ ful_rows' = [b \in RepoBarcodes |->
          IF b[2] = o /\ b[3] \in 1..Len(Offers["A"].items) THEN [NoRow EXCEPT !.present = TRUE]
          ELSE ful_rows[b]]
    /\ UNCHANGED <<revVars, telemetry, exceptRev>>

\* consume_fulfillment, step 1: order_repo.consume_fulfillment(barcode,
\* location); no matching row is an error, answered 500
ConsumeRow(t, barcode, location) ==
    /\ rev_task[t].pc = "idle"
    /\ \A u \in RevTasks : u < t => rev_task[u].pc # "idle"
    /\ rev_calls < MaxRevCalls
    /\ rev_calls' = rev_calls + 1
    /\ IF ful_rows[barcode].present
       THEN /\ ful_rows' = [ful_rows EXCEPT ![barcode] =
                   [@ EXCEPT !.consumed_at = <<now>>, !.consumption_location = location]]
            /\ rev_task' = [rev_task EXCEPT ![t] =
                  [RevIdle EXCEPT !.pc = "get", !.barcode = barcode,
                                  !.cancelled = (db_orders[barcode[2]].status = "CANCELLED")]]
       ELSE /\ UNCHANGED ful_rows
            /\ rev_task' = [rev_task EXCEPT ![t] = [RevIdle EXCEPT !.barcode = barcode, !.resp = 500]]
    /\ UNCHANGED <<item_revenue, order_ledger, telemetry, db_orders, exceptRev>>

\* consume_fulfillment, step 2: get_order, then recognize_revenue on the
\* order as read; None is answered 200 at once
ConsumeGetOrder(t) ==
    /\ rev_task[t].pc = "get"
    /\ LET q == rev_task[t]
           entry == recognize_revenue(q.barcode, item_revenue[q.barcode]) IN
          rev_task' = [rev_task EXCEPT ![t] =
             IF entry = <<>>
             THEN [RevIdle EXCEPT !.barcode = q.barcode, !.resp = 200]
             ELSE [q EXCEPT !.pc = "ledger", !.revenue_status = item_revenue[q.barcode]]]
    /\ UNCHANGED <<ful_rows, item_revenue, order_ledger, rev_calls, telemetry, db_orders, exceptRev>>

\* consume_fulfillment, step 3: add_order_ledger_entry, result discarded
ConsumeLedger(t, ok) ==
    /\ rev_task[t].pc = "ledger"
    /\ order_ledger' = IF ok THEN order_ledger \o recognize_revenue(rev_task[t].barcode,
                                                                      rev_task[t].revenue_status)
                       ELSE order_ledger
    /\ rev_task' = [rev_task EXCEPT ![t].pc = "earn"]
    /\ UNCHANGED <<ful_rows, item_revenue, rev_calls, telemetry, db_orders, exceptRev>>

\* consume_fulfillment, step 4: update_item_revenue_status(item, "EARNED"),
\* result discarded; the settlement event; 200
ConsumeEarn(t, ok) ==
    /\ rev_task[t].pc = "earn"
    /\ LET q == rev_task[t] IN
          /\ item_revenue' = IF ok THEN [item_revenue EXCEPT ![q.barcode] = "EARNED"]
                             ELSE item_revenue
          /\ telemetry' = telemetry \cup {[type |-> "settlement:REVENUE_RECOGNITION",
                                            offer |-> NONE, order |-> q.barcode[2]]}
          /\ rev_task' = [rev_task EXCEPT ![t] = [RevIdle EXCEPT !.barcode = q.barcode, !.resp = 200]]
    /\ UNCHANGED <<ful_rows, order_ledger, rev_calls, db_orders, exceptRev>>

(***************************************************************************)
(* altis-api/src/bookings.rs, altis-infra/src/booking_repo.rs and the      *)
(* availability worker of altis-api/src/worker.rs                          *)
(***************************************************************************)
BookReqs == 1..NumBookReqs
SeatKeys == FlightIds \X SeatNumbers

\* the seats a CreateBookingRequest may name for its passengers
SeatChoices == {{k} : k \in SeatKeys} \cup {SeatKeys}

NoBooking == [status |-> "NONE", trip |-> 0, flight_id |-> NONE, seats |-> {}]
BookIdle ==
    [pc |-> "idle", sub |-> NONE, trip |-> 0, seats |-> {},
     owner_opt |-> NONE, flights_opt |-> {}, resp |-> 0]
WorkerIdle == [pc |-> "idle", booking |-> 0, flights |-> {}, flight |-> NONE]

\* hget_trip_field(trip, "flights"): None ({}) when the hash does not exist
hget_flights(t) == IF trip_hash[t].state = "live" THEN trip_hash[t].flights ELSE {}

\* commit_booking, first await: hget owner (requests are numbered in the
\* order they start; the booking id is a fresh Uuid)
CommitGetOwner(b, sub, t, seats) ==
    /\ book_req[b].pc = "idle"
    /\ \A q \in BookReqs : q < b => book_req[q].pc # "idle"
    /\ book_req' = [book_req EXCEPT ![b] =
          [BookIdle EXCEPT !.pc = "flights", !.sub = sub, !.trip = t, !.seats = seats,
                           !.owner_opt = hget_owner(t)]]
    /\ UNCHANGED <<db_bookings, booking_topic, deliveries, worker,
                   trip_hash, seat_lock, avail, exceptBook>>

\* the response commit_booking's validation gives, 0 when it passes: 400 no
\* owner, 403 another user's trip, 500 no flights field
commit_validation(owner_opt, flights_opt, sub) ==
    IF owner_opt = NONE THEN 400
    ELSE IF owner_opt # sub THEN 403
    ELSE IF flights_opt = {} THEN 500
    ELSE 0

\* commit_booking, second await: hget flights, then the validation
CommitGetFlights(b) ==
    /\ book_req[b].pc = "flights"
    /\ LET fl == hget_flights(book_req[b].trip)
           v  == commit_validation(book_req[b].owner_opt, fl, book_req[b].sub) IN
          book_req' = [book_req EXCEPT ![b] =
             IF v = 0 THEN [@ EXCEPT !.pc = "tx", !.flights_opt = fl]
             ELSE [@ EXCEPT !.pc = "done", !.resp = v]]
    /\ UNCHANGED <<db_bookings, booking_topic, deliveries, worker,
                   trip_hash, seat_lock, avail, exceptBook>>

\* the rows one commit_booking transaction leaves: create_booking on the
\* trip's first flight, add_passenger with the request's seats, and
\* confirm_booking
committed_booking(q) ==
    [status |-> "CONFIRMED", trip |-> q.trip,
     flight_id |-> CHOOSE f \in q.flights_opt : TRUE, seats |-> q.seats]

\* commit_booking, the transaction: begin, create_booking, add_passenger,
\* confirm_booking, commit
CommitTx(b) ==
    /\ book_req[b].pc = "tx"
    /\ db_bookings' = [db_bookings EXCEPT ![b] = committed_booking(book_req[b])]
    /\ book_req' = [book_req EXCEPT ![b] = [@ EXCEPT !.pc = "publish"]]
    /\ UNCHANGED <<booking_topic, deliveries, worker,
                   trip_hash, seat_lock, avail, exceptBook>>

\* commit_booking, end: kafka.publish("booking.confirmed", id, id), whose
\* result is dropped, and the 200 CONFIRMED response
CommitPublish(b, sent) ==
    /\ book_req[b].pc = "publish"
    /\ booking_topic' = IF sent THEN Append(booking_topic, b) ELSE booking_topic
    /\ book_req' = [book_req EXCEPT ![b] = [@ EXCEPT !.pc = "done", !.resp = 200]]
    /\ UNCHANGED <<db_bookings, deliveries, worker,
                   trip_hash, seat_lock, avail, exceptBook>>

\* start_availability_worker: consumer.recv() hands over a record of the
\* topic; offsets are committed in the background (enable.auto.commit), so
\* a record may be handed over again after a restart or a rebalance
WorkerRecv(b) ==
    /\ worker.pc = "idle"
    /\ \E i \in 1..Len(booking_topic) : booking_topic[i] = b
    /\ deliveries[b] < MaxDeliveries
    /\ deliveries' = [deliveries EXCEPT ![b] = @ + 1]
    /\ worker' = [WorkerIdle EXCEPT !.pc = "select", !.booking = b]
    /\ UNCHANGED <<db_bookings, book_req, booking_topic,
                   trip_hash, seat_lock, avail, exceptBook>>

\* update_availability, the query: SELECT DISTINCT flight_id of the
\* booking's passenger_seats; an error ends the call
WorkerSelect(ok) ==
    /\ worker.pc = "select"
    /\ worker' = IF ok
                 THEN [worker EXCEPT !.pc = "decr",
                          !.flights = {k[1] : k \in db_bookings[worker.booking].seats}]
                 ELSE [WorkerIdle EXCEPT !.booking = worker.booking]
    /\ UNCHANGED <<db_bookings, book_req, booking_topic, deliveries,
                   trip_hash, seat_lock, avail, exceptBook>>

\* DECR flight:{id}:availability: an absent key counts as 0
decr_flight_availability(f) == IF avail[f] = <<>> THEN <<0 - 1>> ELSE <<avail[f][1] - 1>>

\* update_availability, the loop body for one flight: the DECR; when the
\* command fails the key is invalidated next
WorkerDecr(f, ok) ==
    /\ worker.pc = "decr"
    /\ f \in worker.flights
    /\ IF ok
       THEN /\ avail' = [avail EXCEPT ![f] = decr_flight_availability(f)]
            /\ worker' = IF worker.flights = {f}
                         THEN [WorkerIdle EXCEPT !.booking = worker.booking]
                         ELSE [worker EXCEPT !.flights = @ \ {f}]
       ELSE /\ worker' = [worker EXCEPT !.pc = "del", !.flight = f]
            /\ UNCHANGED avail
    /\ UNCHANGED <<db_bookings, book_req, booking_topic, deliveries,
                   trip_hash, seat_lock, exceptBook>>

\* update_availability, the invalidation of the flight whose DECR failed:
\* get_async_connection()? ends the call on an error; the DEL's own result
\* is dropped
WorkerDel(connected, deleted) ==
    /\ worker.pc = "del"
    /\ avail' = IF connected /\ deleted THEN [avail EXCEPT ![worker.flight] = <<>>] ELSE avail
    /\ worker' = IF ~connected \/ worker.flights = {worker.flight}
                 THEN [WorkerIdle EXCEPT !.booking = worker.booking]
                 ELSE [worker EXCEPT !.pc = "decr", !.flights = @ \ {worker.flight},
                                     !.flight = NONE]
    /\ UNCHANGED <<db_bookings, book_req, booking_topic, deliveries,
                   trip_hash, seat_lock, exceptBook>>

(***************************************************************************)
(* altis-offer/src/expiry.rs and altis-offer/src/models.rs                 *)
(***************************************************************************)
ExpIds == 1..MaxExpOffers

\* no entry under the id in ExpiryManager.offers
NoExpOffer == [status |-> "NONE", expires_at |-> 0]

\* an activity test that does not look at the status
is_active_any_status(offer) == ~is_expired(offer)

\* Offer::is_active: status == Active && !is_expired()
is_active(offer) == offer.status = "Active" /\ ~is_expired(offer)

\* store_offer: insert under offer.id, replacing what was there.  The
\* offer is one built by Offer::new (status Active) whose expires_at the
\* caller has set.
StoreOffer(id, expires_at) ==
    /\ exp_offers' = [exp_offers EXCEPT ![id] = [status |-> "Active", expires_at |-> expires_at]]
    /\ exp_result' = [op |-> "store_offer", id |-> id, res |-> "Ok", removed |-> 0]
    /\ UNCHANGED exceptExp

\* get_offer: Some only for a stored offer that is_active
ExpGetOffer(id) ==
    /\ exp_result' = [op |-> "get_offer", id |-> id, removed |-> 0,
                      res |-> IF exp_offers[id] # NoExpOffer /\ is_active(exp_offers[id])
                              THEN "Some" ELSE "None"]
    /\ UNCHANGED <<exp_offers, exceptExp>>

\* accept_offer: NotFound, Expired when the offer is not active, else the
\* status becomes Accepted
ExpAcceptOffer(id) ==
    /\ IF exp_offers[id] = NoExpOffer
       THEN /\ exp_result' = [op |-> "accept_offer", id |-> id, res |-> "NotFound", removed |-> 0]
            /\ UNCHANGED exp_offers
       ELSE IF ~is_active(exp_offers[id])
       THEN /\ exp_result' = [op |-> "accept_offer", id |-> id, res |-> "Expired", removed |-> 0]
            /\ UNCHANGED exp_offers
       ELSE /\ exp_offers' = [exp_offers EXCEPT ![id].status = "Accepted"]
            /\ exp_result' = [op |-> "accept_offer", id |-> id, res |-> "Ok", removed |-> 0]
    /\ UNCHANGED exceptExp

\* the offers cleanup_expired's retain drops
cleanup_drops(offer) == offer.expires_at <= now /\ offer.status = "Active"

\* cleanup_expired: retain, then initial_count - len
CleanupExpired ==
    /\ exp_offers' = [id \in ExpIds |->
                        IF exp_offers[id] # NoExpOffer /\ cleanup_drops(exp_offers[id])
                        THEN NoExpOffer ELSE exp_offers[id]]
    /\ exp_result' = [op |-> "cleanup_expired", id |-> 0, res |-> "Ok",
                      removed |-> Cardinality({id \in ExpIds :
                          exp_offers[id] # NoExpOffer /\ cleanup_drops(exp_offers[id])})]
    /\ UNCHANGED exceptExp

(***************************************************************************)
(* Initial state and specifications                                        *)
(***************************************************************************)
InitStore ==
    /\ order = OrderNew
    /\ chg_result = ChgRes("Ok")
    /\ mgr_orders = [id \in OrderIds |-> NONE]
    /\ mgr_result = [op |-> "new", id |-> 0, res |-> OkResult]
    /\ cb_state = "Closed"
    /\ failure_count = 0
    /\ last_failure = <<>>
    /\ now = 0
    /\ cb_req = [p \in Clients |-> CbIdle]
    /\ cb_started = 0
    /\ cb_streak = 0
    /\ ful_svc = <<>>
    /\ trip_hash = [t \in Trips |-> NoTrip]
    /\ seat_lock = [k \in FlightIds \X SeatNumbers |-> NoLock]
    /\ hold_req = [r \in HoldReqs |-> HoldIdle]
    /\ kafka_log = <<>>
    /\ sse_log = <<>>
    /\ db_orders = [o \in ApiOrderIds |-> NoOrder]
    /\ db_changes = {}
    /\ telemetry = {}
    /\ api_task = [t \in ApiTasks |-> ApiIdle]
    /\ api_calls = 0
    /\ ful_rows = [b \in RepoBarcodes |-> NoRow]
    /\ ful_result = [seq |-> 0, op |-> "new", barcode |-> <<>>, res |-> "Ok"]
    /\ item_revenue = [b \in RepoBarcodes |-> "UNEARNED"]
    /\ order_ledger = <<>>
    /\ rev_task = [t \in RevTasks |-> RevIdle]
    /\ rev_calls = 0
    /\ db_bookings = [b \in BookReqs |-> NoBooking]
    /\ book_req = [b \in BookReqs |-> BookIdle]
    /\ booking_topic = <<>>
    /\ deliveries = [b \in BookReqs |-> 0]
    /\ worker = WorkerIdle
    /\ exp_offers = [id \in ExpIds |-> NoExpOffer]
    /\ exp_result = [op |-> "new", id |-> 0, res |-> "Ok", removed |-> 0]
    /\ released = [o \in ApiOrderIds |-> [f \in FlightIds |-> 0]]

\* the availability cache starts empty
Init ==
    /\ InitStore
    /\ avail = [f \in FlightIds |-> <<>>]

\* the API may start on a cache that earlier searches have filled
InitApi ==
    /\ InitStore
    /\ avail \in [FlightIds -> {<<>>, <<Capacity>>}]

NextOrder ==
    \/ \E k \in ItemKinds, p \in Prices, q \in Quantities : OrderAddItem(k, p, q)
    \/ \E s \in OrderStatus : OrderUpdateStatus(s)
    \/ \E k \in ItemKinds, p \in Prices, q \in Quantities : ChangeAddItem(k, p, q)
    \/ \E id \in 1..(MaxItems + 1) : ChangeRefundItem(id)
    \/ \E id \in 1..(MaxItems + 1), k \in ItemKinds, p \in Prices, q \in Quantities :
          ChangeFlight(id, k, p, q)
    \/ \E f \in FlightIds, s \in FlightStatus, alt \in {<<>>, <<"F2">>} :
          ProcessDisruption(f, s, alt)

SpecOrder == Init /\ [][NextOrder]_vars

NextMgr ==
    \/ \E id \in OrderIds : CreateOrder(id)
    \/ \E id \in OrderIds : lock_order(id)
    \/ \E id \in OrderIds : mark_paid(id)
    \/ \E id \in OrderIds : mark_fulfilled(id)
    \/ \E id \in OrderIds : mgr_cancel_order(id)
    \/ \E id \in OrderIds : archive_order(id)

SpecMgr == Init /\ [][NextMgr]_vars

NextCB ==
    \/ \E p \in Clients : CheckReadState(p)
    \/ \E p \in Clients : CheckReadLastFailure(p)
    \/ \E p \in Clients : CheckWriteHalfOpen(p)
    \/ \E p \in Clients, e \in BOOLEAN : HandlerReturn(p, e)
    \/ \E p \in Clients : RecordSuccess(p)
    \/ \E p \in Clients : RecordFailureAdd(p)
    \/ \E p \in Clients : RecordFailureLock(p)
    \/ Tick

SpecCB == Init /\ [][NextCB]_vars

ServiceBarcodes == {<<"ALTIS", t, i>> : t \in 0..MaxTime, i \in ItemIds}

NextFul ==
    \/ \E i \in ItemIds : GenerateFulfillment(i)
    \/ \E b \in ServiceBarcodes : ServiceConsume(b)
    \/ \E b \in RepoBarcodes : RepoCreateFulfillment(b)
    \/ \E b \in RepoBarcodes, l \in Locations : RepoConsumeFulfillment(b, l)
    \/ Tick

SpecFul == Init /\ [][NextFul]_vars

NextSeat ==
    \/ \E t \in Trips, u \in Users, fs \in {{"F1"}, {"F2"}} : CreateTripHold(t, u, fs)
    \/ \E r \in HoldReqs, u \in Users, t \in Trips, f \in FlightIds, n \in SeatNumbers :
          SeatHoldGetOwner(r, u, t, f, n)
    \/ \E r \in HoldReqs : SeatHoldGetFlights(r)
    \/ \E r \in HoldReqs : SeatHoldAcquire(r)
    \/ \E r \in HoldReqs : SeatHoldPublish(r)
    \/ \E r \in HoldReqs : SeatHoldSend(r)
    \/ \E t \in Trips : TripExpires(t)
    \/ \E k \in FlightIds \X SeatNumbers : SeatLockExpires(k)

SpecSeat == Init /\ [][NextSeat]_vars

\* trip sessions: creation, passengers and the keys' expiry
NextTrip ==
    \/ \E t \in Trips, u \in Users, fs \in {{"F1"}, {"F2"}} : CreateTripHold(t, u, fs)
    \/ \E t \in Trips, u \in Users, fs \in {{"F1"}, {"F2"}}, k \in 1..3 :
          CreateTripHoldFails(t, u, fs, k)
    \/ \E r \in HoldReqs, u \in Users, t \in Trips : PassengerGetOwner(r, u, t)
    \/ \E r \in HoldReqs, ok \in BOOLEAN : PassengerHset(r, ok)
    \/ \E t \in Trips : TripExpires(t)

SpecTrip == Init /\ [][NextTrip]_vars

NextApi ==
    \/ \E t \in ApiTasks, f \in FlightIds : SearchFlights(t, f)
    \/ \E t \in ApiTasks : SearchSeed(t)
    \/ \E t \in ApiTasks, id \in DOMAIN Offers : AcceptGetOffer(t, id)
    \/ \E t \in ApiTasks : AcceptHold(t)
    \/ \E t \in ApiTasks : AcceptHoldError(t)
    \/ \E t \in ApiTasks : AcceptCreateOrderFails(t)
    \/ \E t \in ApiTasks : AcceptRollback(t)
    \/ \E t \in ApiTasks : AcceptCreateOrder(t)
    \/ \E t \in ApiTasks : AcceptAddItem(t)
    \/ \E t \in ApiTasks, o \in ApiOrderIds : IntentGetOrder(t, o)
    \/ \E t \in ApiTasks, created \in BOOLEAN : IntentCreate(t, created)
    \/ \E t \in ApiTasks, o \in ApiOrderIds : PayGetOrder(t, o)
    \/ \E t \in ApiTasks : PaySetPending(t)
    \/ \E t \in ApiTasks, r \in PaymentOutcomes : PayProcess(t, r)
    \/ \E t \in ApiTasks : PayFulfil(t)
    \/ \E t \in ApiTasks, o \in ApiOrderIds : CancelGetOrder(t, o)
    \/ \E t \in ApiTasks : CancelUpdate(t)
    \/ \E t \in ApiTasks : ReleaseGet(t)
    \/ \E t \in ApiTasks : ReleaseSet(t)
    \/ \E t \in ApiTasks, o \in ApiOrderIds : InvoluntaryRefund(t, o)
    \/ \E t \in ApiTasks, o \in ApiOrderIds, st \in IntentStatuses : Webhook(t, o, st)
    \/ \E t \in ApiTasks : WebhookGetOrder(t)
    \/ Tick

SpecApi == InitApi /\ [][NextApi]_vars

NextRev ==
    \/ \E o \in ApiOrderIds : IssueFulfillments(o)
    \/ \E t \in RevTasks, b \in RepoBarcodes, l \in Locations : ConsumeRow(t, b, l)
    \/ \E t \in RevTasks : ConsumeGetOrder(t)
    \/ \E t \in RevTasks, ok \in BOOLEAN : ConsumeLedger(t, ok)
    \/ \E t \in RevTasks, ok \in BOOLEAN : ConsumeEarn(t, ok)

SpecRev == Init /\ [][NextRev]_vars

\* the barcodes of one paid order, consumed while the order may be refunded
NextRefund ==
    \/ IssueFulfillments(1)
    \/ \E t \in ApiTasks : InvoluntaryRefund(t, 1)
    \/ \E t \in RevTasks, b \in RepoBarcodes, l \in Locations : ConsumeRow(t, b, l)
    \/ \E t \in RevTasks : ConsumeGetOrder(t)
    \/ \E t \in RevTasks, ok \in BOOLEAN : ConsumeLedger(t, ok)
    \/ \E t \in RevTasks, ok \in BOOLEAN : ConsumeEarn(t, ok)

SpecRefund == Init /\ [][NextRefund]_vars

\* bookings and seat holds of one user's trips
NextExp ==
    \/ \E id \in ExpIds, e \in 0..MaxTime : StoreOffer(id, e)
    \/ \E id \in ExpIds : ExpGetOffer(id)
    \/ \E id \in ExpIds : ExpAcceptOffer(id)
    \/ CleanupExpired
    \/ Tick

SpecExp == Init /\ [][NextExp]_vars

NextBook ==
    \/ \E t \in Trips, fs \in {{"F1"}, {"F2"}} : CreateTripHold(t, "U1", fs)
    \/ \E r \in 1..BookHolds, t \in Trips, f \in FlightIds, n \in SeatNumbers :
          SeatHoldGetOwner(r, "U1", t, f, n)
    \/ \E r \in 1..BookHolds : SeatHoldGetFlights(r)
    \/ \E r \in 1..BookHolds : SeatHoldAcquire(r)
    \/ \E r \in 1..BookHolds : SeatHoldPublish(r)
    \/ \E r \in 1..BookHolds : SeatHoldSend(r)
    \/ \E k \in SeatKeys : SeatLockExpires(k)
    \/ \E b \in BookReqs, t \in Trips, seats \in SeatChoices :
          CommitGetOwner(b, "U1", t, seats)
    \/ \E b \in BookReqs : CommitGetFlights(b)
    \/ \E b \in BookReqs : CommitTx(b)
    \/ \E b \in BookReqs, sent \in BOOLEAN : CommitPublish(b, sent)

SpecBook == Init /\ [][NextBook]_vars

\* bookings on one trip and the worker that consumes their records
NextWorker ==
    \/ \E fs \in {{"F1"}, {"F2"}} : CreateTripHold(1, "U1", fs)
    \/ \E b \in BookReqs, seats \in SeatChoices : CommitGetOwner(b, "U1", 1, seats)
    \/ \E b \in BookReqs : CommitGetFlights(b)
    \/ \E b \in BookReqs : CommitTx(b)
    \/ \E b \in BookReqs, sent \in BOOLEAN : CommitPublish(b, sent)
    \/ \E b \in BookReqs : WorkerRecv(b)
    \/ \E ok \in BOOLEAN : WorkerSelect(ok)
    \/ \E f \in FlightIds, ok \in BOOLEAN : WorkerDecr(f, ok)
    \/ \E connected \in BOOLEAN, deleted \in BOOLEAN : WorkerDel(connected, deleted)

SpecWorker == InitApi /\ [][NextWorker]_vars

(***************************************************************************)
(* Claims                                                                  *)
(***************************************************************************)

\* C1: after any sequence of Order::add_item, ChangeHandler::add_item,
\* refund_item, change_flight and disruption processing, order.total_nuc
\* equals the sum over ACTIVE items of price_nuc * quantity.
C1_TotalIsActivePriceTimesQuantity ==
    order.total_nuc =
        SumSeq([i \in 1..Len(order.items) |->
                  IF order.items[i].status = "ACTIVE"
                  THEN order.items[i].price_nuc * order.items[i].quantity
                  ELSE 0])

\* C5: lock_order, mark_paid, mark_fulfilled and archive_order each succeed
\* only from their single source state and then move the order to the target
\* state; from any other state they return InvalidTransition naming the
\* current state and the target, and leave the status unchanged.
C5Ops == {"lock_order", "mark_paid", "mark_fulfilled", "archive_order"}
C5Source(op) == CASE op = "lock_order" -> "Proposed"
                  [] op = "mark_paid" -> "Locked"
                  [] op = "mark_fulfilled" -> "Paid"
                  [] op = "archive_order" -> "Fulfilled"
C5Target(op) == CASE op = "lock_order" -> "Locked"
                  [] op = "mark_paid" -> "Paid"
                  [] op = "mark_fulfilled" -> "Fulfilled"
                  [] op = "archive_order" -> "Archived"
C5TargetName(op) == CASE op = "lock_order" -> "LOCKED"
                      [] op = "mark_paid" -> "PAID"
                      [] op = "mark_fulfilled" -> "FULFILLED"
                      [] op = "archive_order" -> "ARCHIVED"
C5_SingleSourceTransitions ==
    [][ \A id \in OrderIds :
          (mgr_result'.op \in C5Ops /\ mgr_result'.id = id /\ mgr_orders[id] # NONE) =>
            LET op == mgr_result'.op IN
            IF mgr_orders[id] = C5Source(op)
            THEN /\ mgr_result'.res.err = "Ok"
                 /\ mgr_orders'[id] = C5Target(op)
            ELSE /\ mgr_result'.res = [err |-> "InvalidTransition",
                                       from |-> mgr_orders[id], to |-> C5TargetName(op)]
                 /\ mgr_orders'[id] = mgr_orders[id]
      ]_vars
\* mark_paid was refused on a Proposed order (test_invalid_transition) while
\* another order has gone through the whole lifecycle (test_order_lifecycle)
C5_Witness ==
    /\ mgr_result.op = "mark_paid"
    /\ mgr_result.res = [err |-> "InvalidTransition", from |-> "Proposed", to |-> "PAID"]
    /\ \E id \in OrderIds : mgr_orders[id] = "Archived"

\* the step is taken by request task p
CbStep(p) == cb_req'[p] # cb_req[p]

\* p's check returns false: 503, the handler is not called, and the failure
\* counter and the last-failure instant are left as they were
CbRejected(p) ==
    /\ cb_req'[p].pc = "idle" /\ cb_req'[p].resp = 503 /\ ~cb_req'[p].ran
    /\ failure_count' = failure_count
    /\ last_failure' = last_failure

\* no record_failure is between its counter update and its state update
CbFailuresSettled == \A p \in Clients : cb_req[p].pc # "rf_lock"

\* the reset timeout has not elapsed since the last failure
CbWithinTimeout == last_failure # <<>> /\ now - last_failure[1] <= ResetTimeout

C9_OneProbe ==
    cb_state = "HalfOpen" => Cardinality({p \in Clients : cb_req[p].probe}) <= 1

\* C10: a success recorded in HALF_OPEN moves the breaker to CLOSED with the
\* failure counter at zero, and a CLOSED breaker admits calls; a failure
\* recorded in HALF_OPEN moves it to OPEN with the last-failure timestamp
\* set to the time of that failure, whatever the counter value.
C10_ProbeOutcome ==
    [][\A p \in Clients :
        /\ (cb_req[p].pc = "rec_success" /\ cb_state = "HalfOpen" /\ CbStep(p))
               => (cb_state' = "Closed" /\ failure_count' = 0)
        /\ (cb_req[p].pc = "idle" /\ cb_state = "Closed" /\ CbStep(p))
               => (cb_req'[p].pc = "run" /\ cb_req'[p].ran)
        /\ (cb_req[p].pc = "rf_lock" /\ cb_state = "HalfOpen" /\ CbStep(p))
               => (cb_state' = "Open" /\ last_failure' = <<now>>)]_vars

\* a failure recorded in HALF_OPEN with the counter below the threshold has
\* re-opened the breaker and stamped it with the current time
C10_Witness ==
    /\ cb_state = "Open" /\ last_failure = <<now>> /\ now > 0
    /\ failure_count < FailureThreshold
    /\ \E p \in Clients : cb_req[p].pc = "idle" /\ cb_req[p].resp = 500 /\ cb_req[p].count < FailureThreshold
    /\ CbFailuresSettled

\* the token has been consumed: some fulfillment of the service carries it
\* consumed, or its row has a consumption timestamp
SvcConsumed(b) == \E i \in 1..Len(ful_svc) : ful_svc[i].barcode_token = b /\ ful_svc[i].is_consumed
RepoConsumed(b) == b \in RepoBarcodes /\ ful_rows[b].consumed_at # <<>>

\* C4: fulfillment tokens are single-use.  A consume of a token that has
\* already been consumed fails as already consumed and leaves the recorded
\* consumption timestamp and location unchanged, for FulfillmentService::
\* consume and for the repository's consume_fulfillment alike.
C4_SingleUse ==
    [][/\ (ful_result'.seq # ful_result.seq /\ ful_result'.op = "consume"
             /\ SvcConsumed(ful_result'.barcode))
          => (ful_result'.res = "AlreadyConsumed" /\ ful_svc' = ful_svc)
       /\ (ful_result'.seq # ful_result.seq /\ ful_result'.op = "consume_fulfillment"
             /\ RepoConsumed(ful_result'.barcode))
          => (ful_result'.res = "AlreadyConsumed" /\ ful_rows' = ful_rows)]_vars

\* request r has run acquire_seat_lock for key k during the key's epoch e
HoldTried(r, k, e) ==
    /\ hold_req[r].pc \in {"publish", "sse"} \/ (hold_req[r].pc = "done" /\ hold_req[r].resp \in {200, 409})
    /\ <<hold_req[r].flight, hold_req[r].seat>> = k
    /\ hold_req[r].epoch = e

\* occurrences of event e in a log
Occurrences(log, e) == Cardinality({i \in 1..Len(log) : log[i] = e})

\* winners whose request has got past pc values pcs, by the event they built
WinnersPast(pcs, e) ==
    Cardinality({r \in HoldReqs : hold_req[r].locked /\ hold_req[r].pc \in pcs
                                   /\ SeatHeldEvent(hold_req[r]) = e})

HoldEvents ==
    {SeatHeldEvent(hold_req[r]) : r \in HoldReqs} \cup {kafka_log[i] : i \in 1..Len(kafka_log)}
        \cup {sse_log[i] : i \in 1..Len(sse_log)}

HoldingOrders(f) ==
    {o \in ApiOrderIds :
        /\ db_orders[o].status \notin {"NONE", "CANCELLED"}
        /\ \E i \in 1..Len(db_orders[o].items) : db_orders[o].items[i] = FlightItem(f)}

\* C2: no oversell.  For a flight with Capacity seats, the number of
\* non-cancelled orders holding a seat on it never exceeds Capacity, under
\* every interleaving of accept_offer, cancel_order and the failed-payment
\* webhook, the availability key absent or present.
C2_NoOversell == \A f \in FlightIds : Cardinality(HoldingOrders(f)) <= Capacity

\* the order lifecycle table
LegalTransitions ==
    {<<"PROPOSED", "EXPIRED">>, <<"PROPOSED", "CANCELLED">>, <<"PROPOSED", "PAYMENT_PENDING">>,
     <<"PAYMENT_PENDING", "PAID">>, <<"PAYMENT_PENDING", "CANCELLED">>,
     <<"PAID", "FULFILLED">>, <<"PAID", "CANCELLED">>,
     <<"FULFILLED", "CANCELLED">>, <<"FULFILLED", "ARCHIVED">>}

LifecycleOps == {"pay_order", "cancel_order", "involuntary_refund", "webhook"}

\* task t's handler returns in this step
ApiReturns(t) ==
    /\ api_task'[t].pc = "idle"
    /\ \/ api_task[t].pc # "idle"
       \/ /\ api_calls' # api_calls
          /\ api_task[t].pc = "idle"
          /\ \A u \in ApiTasks : u < t => api_task[u].pc # "idle"

\* C6: pay_order, cancel_order, involuntary_refund and the payment webhook
\* either perform a transition of the lifecycle table or are rejected with
\* the status unchanged: every change of a persisted order's status is a
\* legal transition, a call that reports success on an existing order has
\* changed its status, and a call that reports failure has not.
C6_LegalOrRejected ==
    [][/\ \A o \in ApiOrderIds :
             (db_orders[o].status # "NONE" /\ db_orders'[o].status # db_orders[o].status)
                => <<db_orders[o].status, db_orders'[o].status>> \in LegalTransitions
       /\ \A t \in ApiTasks :
             (ApiReturns(t) /\ api_task'[t].op \in LifecycleOps
                 /\ db_orders[api_task'[t].order].status # "NONE")
                => (api_task'[t].resp \in {200, 204} <=> api_task'[t].wrote)]_vars

\* the number of decrements of flight f made by the accept_offer call q
HeldCount(q, f) == Len(SelectSeq(q.held, LAMBDA g : g = f))

\* the step on which task t answers its accept_offer call with 409
AcceptConflict(t) ==
    /\ api_task[t].op = "accept_offer"
    /\ api_task[t].pc # "idle"
    /\ api_task'[t].pc = "idle"
    /\ api_task'[t].resp = 409

\* C11: an accept_offer call that meets an underflow answers 409, creates
\* no order, and gives back every decrement it made: each flight's cached
\* count goes up, on the answering step, by the number of decrements the
\* call made on it (the earlier flights and the failing one).
C11_RollbackRestores ==
    [][\A t \in ApiTasks :
          AcceptConflict(t) =>
             /\ db_orders' = db_orders
             /\ \A f \in FlightIds :
                   HeldCount(api_task[t], f) > 0 =>
                      /\ avail'[f] # <<>>
                      /\ avail[f] # <<>>
                      /\ avail'[f][1] = avail[f][1] + HeldCount(api_task[t], f)]_vars

\* C12: a flight's cached availability, while its key is present, is never
\* negative.
C12_AvailabilityNonNegative ==
    \A f \in FlightIds : avail[f] # <<>> => avail[f][1] >= 0

\* the step on which task t takes an accept_offer call
AcceptStarts(t) ==
    /\ api_calls' = api_calls + 1
    /\ api_task[t].pc = "idle"
    /\ \A u \in ApiTasks : u < t => api_task[u].pc # "idle"
    /\ api_task'[t].op = "accept_offer"

OrdersOf(id) == {o \in ApiOrderIds : db_orders[o].status # "NONE" /\ db_orders[o].offer = id}

\* C14: an accepted offer is ACCEPTED for good: whatever accept_offer calls
\* are made, an offer has produced at most one order.
C14_OneOrderPerOffer ==
    \A id \in DOMAIN Offers : Cardinality(OrdersOf(id)) <= 1

\* C15: acceptance persists the order and its items atomically: every
\* order visible in the store has all the items of its offer.
C15_OrderPersistedWhole ==
    \A o \in ApiOrderIds :
       db_orders[o].status # "NONE" =>
          Len(db_orders[o].items) = Len(Offers[db_orders[o].offer].items)

\* the step on which task t answers a pay_order call whose payment the
\* adapter reported as failed or cancelled
PayFailed(t) ==
    /\ api_task[t].op = "pay_order"
    /\ api_task[t].pc = "process"
    /\ api_task'[t].pc = "idle"
    /\ api_task'[t].resp = 402

\* C16: when the payment adapter returns FAILED or CANCELED during
\* pay_order, the order is CANCELLED when the call is answered (and its
\* flights are released).
C16_FailedPaymentCancels ==
    [][\A t \in ApiTasks :
          PayFailed(t) => db_orders'[api_task[t].order].status = "CANCELLED"]_vars

\* the step on which task t takes a payment webhook
WebhookStarts(t) ==
    /\ api_calls' = api_calls + 1
    /\ api_task[t].pc = "idle"
    /\ \A u \in ApiTasks : u < t => api_task[u].pc # "idle"
    /\ api_task'[t].op = "webhook"

\* C17: the payment webhook moves an order to PAID only from
\* PAYMENT_PENDING; an order in any other status is never moved to PAID by
\* a webhook.
C17_WebhookPaidFromPending ==
    [][\A t \in ApiTasks, o \in ApiOrderIds :
          (WebhookStarts(t) /\ db_orders'[o].status = "PAID" /\ db_orders[o].status # "PAID")
             => db_orders[o].status = "PAYMENT_PENDING"]_vars

\* a pay_order call has marked order o PAID and has not yet run its
\* fulfillment loop
Issuing(o) ==
    \E t \in ApiTasks :
       api_task[t].op = "pay_order" /\ api_task[t].pc = "fulfil" /\ api_task[t].order = o

\* C18: whenever an order is PAID, through pay_order or through the
\* webhook, a fulfillment row with token ALTIS-{order}-{item} exists for
\* each of its items (every item of these orders is ACTIVE).
C18_PaidHasFulfillments ==
    \A o \in ApiOrderIds :
       (db_orders[o].status = "PAID" /\ ~Issuing(o)) =>
          \A i \in 1..Len(db_orders[o].items) : ful_rows[<<"ALTIS", o, i>>].present

\* the REVENUE_RECOGNITION entries of the ledger for item b (no handler
\* writes a REFUND entry)
Recognitions(b) ==
    {k \in DOMAIN order_ledger : order_ledger[k] = LedgerEntry(b, "REVENUE_RECOGNITION")}

\* a consume request for item b is between its ledger insert and its
\* status update
Recognising(b) == \E t \in RevTasks : rev_task[t].pc = "earn" /\ rev_task[t].barcode = b

\* C19: an item's revenue status is EARNED if and only if the ledger holds
\* a REVENUE_RECOGNITION entry for it (with no later REFUND), also when the
\* ledger insert or the status update fails.
C19_EarnedIffRecognised ==
    \A b \in RepoBarcodes :
       ~Recognising(b) => (item_revenue[b] = "EARNED" <=> Recognitions(b) # {})

\* C20: revenue is recognised at most once per item: whatever consume
\* requests are made for a barcode, the ledger holds at most one
\* REVENUE_RECOGNITION entry for the item.
C20_RecognisedOnce ==
    \A b \in RepoBarcodes : Cardinality(Recognitions(b)) <= 1

\* every fulfillment token of order o has been consumed and no consume
\* request for one of them is still running
AllConsumed(o) ==
    /\ \A i \in 1..Len(db_orders[o].items) :
          /\ ful_rows[<<"ALTIS", o, i>>].present
          /\ ful_rows[<<"ALTIS", o, i>>].consumed_at # <<>>
    /\ \A t \in RevTasks : rev_task[t].pc = "idle"

\* C21: once every fulfillment token of a PAID order has been consumed the
\* order is FULFILLED, and an order is never FULFILLED while one of its
\* tokens is unconsumed.
C21_ConsumedMeansFulfilled ==
    \A o \in ApiOrderIds :
       db_orders[o].status # "NONE" =>
          /\ AllConsumed(o) => db_orders[o].status = "FULFILLED"
          /\ db_orders[o].status = "FULFILLED" =>
                \A i \in 1..Len(db_orders[o].items) :
                   ful_rows[<<"ALTIS", o, i>>].consumed_at # <<>>

\* the step on which task t runs an involuntary_refund call
RefundStarts(t) ==
    /\ api_calls' = api_calls + 1
    /\ api_task[t].pc = "idle"
    /\ \A u \in ApiTasks : u < t => api_task[u].pc # "idle"
    /\ api_task'[t].op = "involuntary_refund"

\* C22: involuntary_refund on a PAID order leaves it CANCELLED and appends
\* to the ledger a compensating REFUND entry for each of its items.
C22_RefundCompensates ==
    [][\A t \in ApiTasks, o \in ApiOrderIds :
          (RefundStarts(t) /\ api_task'[t].order = o /\ db_orders[o].status = "PAID") =>
             /\ db_orders'[o].status = "CANCELLED"
             /\ \A i \in 1..Len(db_orders[o].items) :
                   \E k \in DOMAIN order_ledger' :
                      order_ledger'[k] = LedgerEntry(<<"ALTIS", o, i>>, "REFUND")]_vars

\* pay_order has paid order o (its audit row is written with the PAID update)
PaidByPay(o) == [order |-> o, type |-> "PAYMENT_RECEIVED"] \in db_changes
\* cancel_order has cancelled order o and run its release loop (its audit
\* row is written after the loop)
ReleasedByCancel(o) == [order |-> o, type |-> "CANCELLED"] \in db_changes
\* no request is running
ApiQuiet == \A t \in ApiTasks : api_task[t].pc = "idle"

\* C23: a pay_order and a cancel_order on one order are serialised: when
\* both have run, the order is not PAID with its inventory released by the
\* cancel, and not CANCELLED with fulfillment tokens issued by the pay.
C23_PayCancelSerialised ==
    \A o \in ApiOrderIds :
       (ApiQuiet /\ PaidByPay(o) /\ ReleasedByCancel(o)) =>
          /\ db_orders[o].status # "PAID"
          /\ db_orders[o].status = "CANCELLED" =>
                \A i \in OfferItemIdx : ~ful_rows[<<"ALTIS", o, i>>].present

\* the step on which task t writes the released count of a flight
ReleaseWrites(t) ==
    /\ api_task[t].pc = "rel_set"
    /\ api_task'[t] # api_task[t]

\* C24: a release is an atomic increment of the flight's counter: the step
\* that writes the released count leaves the counter one above what it was
\* just before, whatever ran since the release read it.
C24_ReleaseIncrements ==
    [][\A t \in ApiTasks :
          LET f == api_task[t].items[1].product_id IN
             (ReleaseWrites(t) /\ avail[f] # <<>>) => avail'[f] = <<avail[f][1] + 1>>]_vars

\* the step on which task t hands the payment of its order to the adapter
PayInvokes(t) ==
    /\ api_task[t].op = "pay_order"
    /\ api_task[t].pc # "process"
    /\ api_task'[t].pc = "process"

\* the step on which the adapter answers Processing to task t
PayProcessing(t) ==
    /\ api_task[t].pc = "process"
    /\ api_task'[t].pc # "process"
    /\ api_task'[t].outcome = "Processing"

\* C25: pay_order writes PAYMENT_PENDING to the order before the adapter is
\* invoked; when the adapter answers Processing the call is answered 200
\* and changes neither the order, which stays as it was (PAYMENT_PENDING
\* unless another request has rewritten it), nor the fulfillment table.
C25_ProcessingStaysPending ==
    [][\A t \in ApiTasks :
          /\ PayInvokes(t) =>
                /\ db_orders[api_task'[t].order].status # "NONE"
                /\ db_orders'[api_task'[t].order].status = "PAYMENT_PENDING"
          /\ PayProcessing(t) =>
                /\ api_task'[t].pc = "idle"
                /\ api_task'[t].resp = 200
                /\ db_orders' = db_orders
                /\ ful_rows' = ful_rows]_vars

\* a pay_order call was answered on a Processing payment and its order is
\* PAYMENT_PENDING with no fulfillment row
C25_Witness ==
    \E t \in ApiTasks :
       /\ api_task[t].op = "pay_order"
       /\ api_task[t].pc = "idle"
       /\ api_task[t].outcome = "Processing"
       /\ db_orders[api_task[t].order].status = "PAYMENT_PENDING"
       /\ Len(db_orders[api_task[t].order].items) > 0
       /\ \A i \in OfferItemIdx : ~ful_rows[<<"ALTIS", api_task[t].order, i>>].present

\* the step is a cancel_order call on order id
MgrCancels(id) == mgr_result'.op = "cancel_order" /\ mgr_result'.id = id

\* C26: in OrderManager, cancel_order moves an order to Cancelled from
\* every state before fulfilment; on a Fulfilled or Archived order it
\* returns InvalidTransition and leaves the status alone; and no operation
\* moves an order out of Archived.
C26_CancelAndSinks ==
    [][\A id \in OrderIds :
          /\ mgr_orders[id] = "Archived" => mgr_orders'[id] = "Archived"
          /\ (MgrCancels(id) /\ mgr_orders[id] \in {"Proposed", "Locked", "Paid"}) =>
                /\ mgr_orders'[id] = "Cancelled"
                /\ mgr_result'.res = OkResult
          /\ (MgrCancels(id) /\ mgr_orders[id] \in {"Fulfilled", "Archived"}) =>
                /\ mgr_orders'[id] = mgr_orders[id]
                /\ mgr_result'.res = InvalidTransition(mgr_orders[id], "CANCELLED")]_vars

\* cancel_order has just been refused on a Fulfilled order while another
\* order, once Paid or earlier, stands Cancelled
C26_Witness ==
    \E a, b \in OrderIds :
       /\ mgr_orders[a] = "Fulfilled"
       /\ mgr_result = [op |-> "cancel_order", id |-> a,
                        res |-> InvalidTransition("Fulfilled", "CANCELLED")]
       /\ mgr_orders[b] = "Cancelled"


\* C27: processing a disruption of flight F changes to PROTECTED exactly the
\* flight items of the order that reference F, leaves every other item and
\* the order's status and total unchanged, and, when an alternative flight
\* exists, adds to the order one item with status REACCOMMODATED priced at 0.
\* Stated for the cancellation of a flight the order references.
C27_DisruptionFrame ==
    [][\A f \in FlightIds, alt \in {<<>>, <<"F2">>} :
         (ProcessDisruption(f, "Cancelled", alt) /\ Affected(order, f) # {}) =>
            LET n == Len(order.items) IN
            /\ order'.status = order.status
            /\ order'.total_nuc = order.total_nuc
            /\ Len(order'.items) = IF alt = <<>> THEN n ELSE n + 1
            /\ \A i \in 1..n :
                  order'.items[i] =
                     IF order.items[i].product_type = "FLIGHT" /\ order.items[i].flight_id = f
                     THEN [order.items[i] EXCEPT !.status = "PROTECTED"]
                     ELSE order.items[i]
            /\ alt # <<>> =>
                  /\ order'.items[n + 1].status = "REACCOMMODATED"
                  /\ order'.items[n + 1].price_nuc = 0]_vars


\* the step of a commit_booking transaction that commits booking b
Commits(b) == db_bookings[b].status = "NONE" /\ db_bookings'[b].status = "CONFIRMED"

\* C28: a booking is committed with a seat only if, at the commit, the
\* committing trip holds the lock on that (flight, seat); and so no two
\* different trips both have a committed booking for the same seat of the
\* same flight.
C28_CommitHoldsSeatLock ==
    [][\A b \in BookReqs :
          Commits(b) =>
             /\ \A k \in db_bookings'[b].seats :
                   seat_lock[k].holder = db_bookings'[b].trip
             /\ \A c \in BookReqs :
                   (/\ db_bookings'[c].status = "CONFIRMED"
                    /\ db_bookings'[c].trip # db_bookings'[b].trip)
                   => db_bookings'[c].seats \cap db_bookings'[b].seats = {}]_vars

\* the worker is handling a record of booking b that it was handed before
Redelivered == worker.pc \in {"select", "decr", "del"} /\ deliveries[worker.booking] > 1

\* C29: the availability worker is idempotent on (booking.confirmed,
\* booking id): handling a record of a booking a second time changes no
\* flight's cached availability.
C29_WorkerIdempotent == [][Redelivered => avail' = avail]_vars


\* the step on which a Closed breaker trips
ClosedTrips == cb_state = "Closed" /\ cb_state' = "Open"

\* C30: a Closed breaker moves to Open only when failure_threshold failures
\* have been recorded with no success recorded since the first of them (a
\* success recorded in Closed zeroes the counter), under every interleaving
\* of record_success with the two steps of record_failure.
C30_TripsOnlyAtThreshold ==
    [][ClosedTrips =>
          /\ cb_streak >= FailureThreshold
          /\ failure_count >= FailureThreshold]_vars


\* C31: ExpiryManager::accept_offer succeeds only on an offer that is
\* active (status Active, not past expires_at) and sets it to Accepted; an
\* accept_offer on an Accepted offer fails and leaves it Accepted; and
\* cleanup_expired neither removes nor changes an Accepted offer.
C31_AcceptOnce ==
    [][\A id \in ExpIds :
          /\ ExpAcceptOffer(id) =>
                IF exp_result'.res = "Ok"
                THEN /\ exp_offers[id].status = "Active"
                     /\ now <= exp_offers[id].expires_at
                     /\ exp_offers'[id].status = "Accepted"
                ELSE exp_offers' = exp_offers
          /\ (ExpAcceptOffer(id) /\ exp_offers[id].status = "Accepted") =>
                exp_result'.res # "Ok" /\ exp_offers'[id].status = "Accepted"
          /\ (CleanupExpired /\ exp_offers[id].status = "Accepted") =>
                exp_offers'[id] = exp_offers[id]]_vars

\* an accept_offer has just failed on an offer accepted before
C31_Witness ==
    /\ exp_result.op = "accept_offer"
    /\ exp_result.res = "Expired"
    /\ exp_offers[exp_result.id].status = "Accepted"

\* C32: cleanup_expired at time t removes exactly the stored offers with
\* status Active and expires_at <= t and returns their number, and removes
\* no offer that get_offer or accept_offer treats as active at time t.
C32_CleanupAgreesWithActive ==
    [][CleanupExpired =>
          /\ \A id \in ExpIds :
                exp_offers'[id] =
                   IF exp_offers[id].status = "Active" /\ exp_offers[id].expires_at <= now
                   THEN NoExpOffer ELSE exp_offers[id]
          /\ exp_result'.removed =
                Cardinality({id \in ExpIds : exp_offers'[id] # exp_offers[id]})
          /\ \A id \in ExpIds :
                (exp_offers[id].status = "Active" /\ ~(now > exp_offers[id].expires_at))
                   => exp_offers'[id] = exp_offers[id]]_vars


\* a step of one of the ChangeHandler operations
ChangeStep ==
    \/ \E k \in ItemKinds, p \in Prices, q \in Quantities : ChangeAddItem(k, p, q)
    \/ \E id \in 1..(MaxItems + 1) : ChangeRefundItem(id)
    \/ \E id \in 1..(MaxItems + 1), k \in ItemKinds, p \in Prices, q \in Quantities :
          ChangeFlight(id, k, p, q)

\* C33: refund_item on an item that is missing or not ACTIVE fails with
\* ItemNotFound / ItemNotActive and leaves the order unchanged; on success
\* it changes exactly that item's status to REFUNDED; and no ChangeHandler
\* operation makes the number of items decrease.
C33_RefundFlipsOnly ==
    [][/\ \A id \in 1..(MaxItems + 1) :
             ChangeRefundItem(id) =>
                LET hits == {i \in 1..Len(order.items) : order.items[i].id = id} IN
                IF hits = {}
                THEN chg_result'.res = "ItemNotFound" /\ order' = order
                ELSE IF \E i \in hits : order.items[i].status # "ACTIVE"
                THEN chg_result'.res = "ItemNotActive" /\ order' = order
                ELSE /\ chg_result'.res = "Ok"
                     /\ order'.status = order.status
                     /\ Len(order'.items) = Len(order.items)
                     /\ \A i \in 1..Len(order.items) :
                           order'.items[i] =
                              IF i \in hits
                              THEN [order.items[i] EXCEPT !.status = "REFUNDED"]
                              ELSE order.items[i]
       /\ ChangeStep => Len(order'.items) >= Len(order.items)]_vars

\* a refund has just been refused on an item refunded before
C33_Witness ==
    /\ chg_result.res = "ItemNotActive"
    /\ \E i \in 1..Len(order.items) : order.items[i].status = "REFUNDED"

\* C36: change_flight is all-or-nothing: when it returns an error the
\* order's items, item statuses and total are what they were before the
\* call.
C36_ChangeFlightAllOrNothing ==
    [][\A id \in 1..(MaxItems + 1), k \in ItemKinds, p \in Prices, q \in Quantities :
          (ChangeFlight(id, k, p, q) /\ chg_result'.res # "Ok") => order' = order]_vars


\* task t takes a pay_order or initialize_payment_intent request for the
\* stored order o, whose expires_at is in the past
PaysExpired(t, o) ==
    /\ api_calls' = api_calls + 1
    /\ api_task[t].pc = "idle"
    /\ \A u \in ApiTasks : u < t => api_task[u].pc # "idle"
    /\ api_task'[t].op \in {"pay_order", "payment_intent"}
    /\ api_task'[t].order = o
    /\ db_orders[o].status # "NONE"
    /\ now > db_orders[o].expires_at

\* C34: pay_order and initialize_payment_intent on an order whose
\* expires_at is in the past answer 410 at once, before any call of the
\* payment adapter, and leave the order as it is.
C34_ExpiredOrderGone ==
    [][\A t \in ApiTasks, o \in ApiOrderIds :
          PaysExpired(t, o) =>
             /\ api_task'[t].pc = "idle"
             /\ api_task'[t].resp = 410
             /\ db_orders' = db_orders]_vars

\* both handlers have answered 410 on an expired order
C34_Witness ==
    \E t, u \in ApiTasks :
       /\ api_task[t].op = "pay_order" /\ api_task[t].resp = 410
       /\ api_task[u].op = "payment_intent" /\ api_task[u].resp = 410
       /\ now > db_orders[api_task[t].order].expires_at
       /\ db_orders[api_task[t].order].status # "NONE"


\* the seats order o holds on flight f: its Flight items on that flight
SeatsHeld(o, f) ==
    Cardinality({i \in 1..Len(db_orders[o].items) :
                    /\ IsFlight(db_orders[o].items[i])
                    /\ db_orders[o].items[i].product_id = f})

\* C35: inventory held by an order is released at most once: over any
\* sequence of cancel_order calls and failed-payment webhooks, the seats an
\* order has added back to a flight's availability counter never outnumber
\* the seats it holds on that flight.
C35_ReleasedAtMostOnce ==
    \A o \in ApiOrderIds, f \in FlightIds : released[o][f] <= SeatsHeld(o, f)

\* C37: no REVENUE_RECOGNITION ledger entry is written and no item becomes
\* EARNED for an order that is CANCELLED at the time its barcode is
\* consumed: a consume request that took the fulfillment row of a CANCELLED
\* order changes neither the ledger nor any item's revenue status.
C37_NoRevenueOnCancelled ==
    [][\A t \in RevTasks :
          (/\ rev_task[t].cancelled
           /\ rev_task'[t] # rev_task[t])
          => /\ order_ledger' = order_ledger
             /\ item_revenue' = item_revenue]_vars


\* C38: every trip hold key present in the cache carries a TTL in every
\* reachable state, whatever create_trip_hold and add_trip_passenger
\* requests have run, failed or raced with the key's expiry.
C38_TripKeysCarryTtl ==
    \A t \in Trips : trip_hash[t].state = "live" => trip_hash[t].ttl


\* the step on which task t answers its accept_offer call with 500
AcceptFails(t) ==
    /\ api_task[t].op = "accept_offer"
    /\ api_task[t].pc # "idle"
    /\ api_task'[t].pc = "idle"
    /\ api_task'[t].resp = 500

\* C39: an accept_offer call that fails after it has decremented flight
\* availability (the order insert fails, or a cache error occurs on a later
\* flight item) undoes its decrements: on the answering step each flight's
\* cached count goes up by the number of decrements the call made on it.
C39_FailedAcceptUndoesHolds ==
    [][\A t \in ApiTasks :
          AcceptFails(t) =>
             \A f \in FlightIds :
                Len(SelectSeq(api_task[t].held, LAMBDA g : g = f)) > 0 =>
                   /\ avail'[f] # <<>>
                   /\ avail[f] # <<>>
                   /\ avail'[f][1] = avail[f][1]
                        + Len(SelectSeq(api_task[t].held, LAMBDA g : g = f))]_vars

====
